---- MODULE Spec2Model ----
(***************************************************************************)
(* State-machine model of the fleet update and license-control plane       *)
(* (server: licensing, releases, heartbeat) and of the on-host agent       *)
(* (update apply, service supervisor).                                     *)
(*                                                                         *)
(* Strings whose characters the code inspects (hostnames, license types)   *)
(* are sequences of one-character strings.  Random values (uuid.New,       *)
(* rand.Read) are either fresh nonces or drawn from a small set.           *)
(***************************************************************************)
EXTENDS Integers, Sequences, FiniteSets, TLC

(***************************************************************************)
(* Bounds of the model.                                                    *)
(***************************************************************************)
\* number of concurrent activation request flows
NumProcs == 2

Procs == 1..NumProcs

(***************************************************************************)
(* Inputs of the licensing subsystem.                                      *)
(***************************************************************************)
\* license keys issued by GenerateLicenseKey (random, so pairwise distinct)
LicKeys == {"K1"}
\* license types as character sequences (UpdateLicense never changes the type)
LicenseTypes == {<<"S", "c">>}
\* hostnames as character sequences; <<>> is the absent hostname
Hostnames == {<<>>, <<"A", ".", "b">>}
\* machine ids; "" is the absent machine id
MachineIDs == {"", "m1", "m2"}
\* values of the 4 random bytes of generateInstanceID
RandSuffixes == {<<"0">>, <<"1">>}
\* activation requests: every hostname and machine id with an issued key,
\* and one request each with an unknown key and with the empty key
Requests ==
    [license_key : LicKeys, hostname : Hostnames, machine_id : MachineIDs]
    \cup {[license_key |-> "KX", hostname |-> <<>>, machine_id |-> ""],
          [license_key |-> "", hostname |-> <<>>, machine_id |-> ""]}
\* expiry instants a license may be created with
ExpiryTimes == {1}
\* the wall clock runs from 0 to MaxClock
MaxClock == 2
\* ApplyUpdate calls in a behaviour
MaxApplies == 2
\* upload requests in a behaviour
MaxRequests == 2
\* ticks of the monitor's ticker in a behaviour
MaxTicks == 7

VARIABLES
    now,        \* server wall clock (time.Now)
    licenses,   \* table licenses: set of rows
    instances,  \* table instances: set of rows
    act         \* per request flow: state of handleLicenseActivate/ActivateLicense

licVars == <<now, licenses, instances, act>>

VARIABLES
    target,       \* agent host: the product's binary, <base>/bin/<product>
    temp,         \* updater/temp/<product>-<version>
    backups,      \* updater/backups/<product>.<version>.bak, per version
    versionFile,  \* updater/versions/<product>.version ("" when absent)
    svc,          \* the product's systemd unit: running, and on which image
    badVersions,  \* the versions whose binary fails to start
    ap,           \* state of the ApplyUpdate call in progress (or the last one)
    applies       \* number of ApplyUpdate calls made

agentVars ==
    <<target, temp, backups, versionFile, svc, badVersions, ap, applies>>

VARIABLES
    store,      \* artifact store: <<product, version, filename>> -> file
    releases,   \* table releases: set of rows
    up,         \* per request flow: state of an upload handler
    hb,         \* per request flow: state of handleHeartbeat
    served      \* number of upload requests taken

srvVars == <<store, releases, up, hb, served>>

VARIABLES
    mtime,         \* agent host clock at the monitor's ticker, in 5 s units
    unit,          \* systemctl is-active of the monitored service
    hasHealth,     \* the product has a HealthEndpoint configured
    restartCount,  \* Monitor.restartCount[service]
    lastRestart,   \* Monitor.lastRestart[service], absent at first
    attemptTimes   \* the times at which systemctl restart was run

monVars ==
    <<mtime, unit, hasHealth, restartCount, lastRestart, attemptTimes>>

VARIABLES
    probe,      \* the last answer of handleLicenseValidate, with its request
    wall,       \* agent host wall clock: <<hour, minute>> of the day
    window,     \* config.Update.MaintenanceWindow: at most one window
    chk,        \* Checker.Start: its position, and when it went on to apply
    adminKey,   \* config.Server.APIKey ("" when none is configured)
    gate,       \* the last request to a guarded route, and what became of it
    daemon,     \* runDaemon: running, cancelled (cancel() was called), exited
    loops       \* the daemon's three goroutines: position and fate of each

\* the state of the server's read-only probes and request guards and of the
\* agent's loops
sideVars == <<probe, wall, window, chk, adminKey, gate, daemon, loops>>

VARIABLES
    dl,         \* the last answer of handleDirectDownload, with its request
    account,    \* one row of table users, with the last answer of Login
    rb,         \* the rollback command: backup directory, position, result
    boot,       \* the init command: position, failed steps, config, exit
    access,     \* accesses to the Monitor's maps that are in progress
    cyc,        \* a cycle of the reporter and of the checker over the products
    sess        \* table sessions, the RefreshTokens calls, their answers

\* the state of the download route, the login, the agent's commands and the
\* agent's cycles
opsVars == <<dl, account, rb, boot, access, cyc, sess>>

vars == <<licVars, agentVars, srvVars, monVars, sideVars, opsVars>>

(***************************************************************************)
(* strings.ToLower and strings.ReplaceAll(s, ".", "-")                      *)
(***************************************************************************)
LowerChar(c) ==
    CASE c = "A" -> "a"
      [] c = "B" -> "b"
      [] c = "S" -> "s"
      [] c = "C" -> "c"
      [] OTHER -> c

ToLower(s) == [i \in DOMAIN s |-> LowerChar(s[i])]

ReplaceDots(s) == [i \in DOMAIN s |-> IF s[i] = "." THEN "-" ELSE s[i]]

\* generateInstanceID: "<lower(type)>-<sanitized hostname>", or a random
\* suffix rnd when the hostname is empty
generateInstanceID(licType, hostname, rnd) ==
    IF hostname # <<>>
    THEN ToLower(licType) \o <<"-">> \o ReplaceDots(ToLower(hostname))
    ELSE ToLower(licType) \o <<"-">> \o rnd

\* GenerateAPIKey: 32 random bytes; the nonce n stands for them
GenerateAPIKey(n) == <<"sk_inst_", n>>

\* HashAPIKey: SHA-256 of the key, hex encoded (collision-free here)
HashAPIKey(k) == <<"sha256", k>>

\* uuid.New().String(); the nonce n stands for the random bits
NewUUID(n) == <<"uuid", n>>

(***************************************************************************)
(* Licensing: tables and the activation request flow.                      *)
(* A table is a set of rows; an optional value is a set of at most one.    *)
(***************************************************************************)
\* Repository.GetByKey: SELECT ... FROM licenses WHERE license_key = $1
GetByKey(key) == {l \in licenses : l.license_key = key}

\* InstanceRepository.GetByInstanceID: SELECT ... WHERE instance_id = $1
GetByInstanceID(iid) == {r \in instances : r.instance_id = iid}

\* Repository.Update: UPDATE licenses SET is_active, expires_at, bound_to, ...
\* WHERE id = $1, every column taken from the caller's in-memory copy
LicenseUpdate(rows, lic) ==
    {IF l.id = lic.id
     THEN [l EXCEPT !.is_active = lic.is_active,
                    !.expires_at = lic.expires_at,
                    !.bound_to = lic.bound_to]
     ELSE l : l \in rows}

\* mutant of InstanceUpdate: the UPDATE leaves api_key_hash out
InstanceUpdateKeepsKey(rows, inst) ==
    {IF r.id = inst.id
     THEN [r EXCEPT !.hostname = inst.hostname, !.status = inst.status]
     ELSE r : r \in rows}

\* InstanceRepository.Update: UPDATE instances SET hostname, api_key_hash,
\* status WHERE id = $1
InstanceUpdate(rows, inst) ==
    {IF r.id = inst.id
     THEN [r EXCEPT !.hostname = inst.hostname,
                    !.api_key_hash = inst.api_key_hash,
                    !.status = inst.status]
     ELSE r : r \in rows}

\* the UNIQUE constraint on instances.instance_id rejects the INSERT
InstanceInsertConflicts(rows, inst) ==
    \E r \in rows : r.instance_id = inst.instance_id

\* mutant of BoundElsewhere: only an absent machine id is refused
BoundElsewhereOnlyEmpty(lic, machine) ==
    lic.bound_to # "" /\ machine = ""

\* ActivateLicense, the binding check: bound to another machine
BoundElsewhere(lic, machine) ==
    lic.bound_to # "" /\ lic.bound_to # machine

\* ActivateLicense, the latch condition: bind when unbound and a machine id
\* was sent
ShouldBind(lic, machine) ==
    lic.bound_to = "" /\ machine # ""

NoReq == [license_key |-> "", hostname |-> <<>>, machine_id |-> ""]

ActIdle ==
    [pc |-> "idle", req |-> NoReq, lic |-> {}, instanceID |-> <<>>,
     apiKey |-> <<>>, existing |-> {}, res |-> {}, after |-> {},
     wrote |-> FALSE]

\* the JSON body and HTTP status written by handleLicenseActivate
Refusal(status, msg) ==
    [status |-> status, success |-> FALSE, error |-> msg, id |-> <<>>,
     name |-> <<>>, api_key |-> <<>>, bound_to |-> ""]

Success(id, name, key, bound) ==
    [status |-> 200, success |-> TRUE, error |-> "", id |-> id,
     name |-> name, api_key |-> key, bound_to |-> bound]

Finish(p, r) ==
    act' = [act EXCEPT ![p].pc = "done", ![p].res = {r}]

\* handleCreateLicense / Service.CreateLicense / Repository.Create
CreateLicense(k, type, exp) ==
    /\ GetByKey(k) = {}
    /\ licenses' = licenses \cup
          {[id |-> NewUUID(k), license_key |-> k, type |-> type,
            is_active |-> TRUE, expires_at |-> exp, bound_to |-> ""]}
    /\ UNCHANGED <<now, instances, act>>
    /\ UNCHANGED <<agentVars, srvVars, monVars, sideVars, opsVars>>

\* the wall clock advances; only ActivateLicense's expiry check reads it, so
\* its steps are taken where a request flow is about to read it
Tick ==
    /\ now < MaxClock
    /\ \E p \in Procs : act[p].pc = "get"
    /\ now' = now + 1
    /\ UNCHANGED <<licenses, instances, act>>
    /\ UNCHANGED <<agentVars, srvVars, monVars, sideVars, opsVars>>

\* handleLicenseActivate: decode the request, reject an empty license_key.
\* Request flows are interchangeable, so flow p is taken into use after
\* flow p-1.
ActStart(p, req) ==
    /\ act[p].pc = "idle"
    /\ \A q \in Procs : q < p => act[q].pc # "idle"
    /\ LET started == [act[p] EXCEPT
                          !.req = req,
                          !.after = {q \in Procs : act[q].pc = "done"}]
       IN  IF req.license_key = ""
           THEN act' = [act EXCEPT ![p] =
                          [started EXCEPT
                             !.pc = "done",
                             !.res = {Refusal(400, "license_key is required")}]]
           ELSE act' = [act EXCEPT ![p] = [started EXCEPT !.pc = "get"]]
    /\ UNCHANGED <<now, licenses, instances>>
    /\ UNCHANGED <<agentVars, srvVars, monVars, sideVars, opsVars>>

\* ActivateLicense: load the license, the refusals, then derive the instance
\* id and issue the API key
ActGetLicense(p, rnd) ==
    /\ act[p].pc = "get"
    /\ LET found == GetByKey(act[p].req.license_key)
           lic == CHOOSE l \in found : TRUE
           machine == act[p].req.machine_id
       IN  IF found = {}
           THEN Finish(p, Refusal(400, "invalid license key"))
           ELSE IF ~lic.is_active
           THEN act' = [act EXCEPT ![p].pc = "done", ![p].lic = found,
                   ![p].res = {Refusal(400, "license is not active")}]
           ELSE IF lic.expires_at < now
           THEN act' = [act EXCEPT ![p].pc = "done", ![p].lic = found,
                   ![p].res = {Refusal(400, "license has expired")}]
           ELSE IF BoundElsewhere(lic, machine)
           THEN act' = [act EXCEPT ![p].pc = "done", ![p].lic = found,
                   ![p].res = {Refusal(400,
                                 "license is bound to a different machine")}]
           ELSE act' = [act EXCEPT
                   ![p].pc = "lookup",
                   ![p].lic = found,
                   ![p].instanceID =
                       generateInstanceID(lic.type, act[p].req.hostname, rnd),
                   ![p].apiKey = GenerateAPIKey(p)]
    /\ UNCHANGED <<now, licenses, instances>>
    /\ UNCHANGED <<agentVars, srvVars, monVars, sideVars, opsVars>>

\* ActivateLicense: existingInstance := GetByInstanceID(instanceID)
ActLookup(p) ==
    /\ act[p].pc = "lookup"
    /\ LET existing == GetByInstanceID(act[p].instanceID)
       IN  act' = [act EXCEPT
                     ![p].existing = existing,
                     ![p].pc = IF existing # {} THEN "update" ELSE "create"]
    /\ UNCHANGED <<now, licenses, instances>>
    /\ UNCHANGED <<agentVars, srvVars, monVars, sideVars, opsVars>>

\* ActivateLicense: the row exists, re-key it
ActUpdate(p) ==
    /\ act[p].pc = "update"
    /\ LET old == CHOOSE r \in act[p].existing : TRUE
           upd == [old EXCEPT !.hostname = act[p].req.hostname,
                              !.api_key_hash = HashAPIKey(act[p].apiKey),
                              !.status = "online"]
       IN  /\ instances' = InstanceUpdate(instances, upd)
           /\ act' = [act EXCEPT ![p].pc = "bind", ![p].existing = {upd},
                                 ![p].wrote = TRUE]
    /\ UNCHANGED <<now, licenses>>
    /\ UNCHANGED <<agentVars, srvVars, monVars, sideVars, opsVars>>

\* ActivateLicense: no row was found, INSERT a new one
ActCreate(p) ==
    /\ act[p].pc = "create"
    /\ LET lic == CHOOSE l \in act[p].lic : TRUE
           new == [id |-> NewUUID(p),
                   instance_id |-> act[p].instanceID,
                   instance_type |-> lic.type,
                   hostname |-> act[p].req.hostname,
                   license_id |-> lic.id,
                   api_key_hash |-> HashAPIKey(act[p].apiKey),
                   status |-> "online",
                   last_heartbeat |-> -1]
       IN  IF InstanceInsertConflicts(instances, new)
           THEN /\ Finish(p, Refusal(500, "failed to create instance"))
                /\ UNCHANGED instances
           ELSE /\ instances' = instances \cup {new}
                /\ act' = [act EXCEPT ![p].pc = "bind", ![p].existing = {new},
                                      ![p].wrote = TRUE]
    /\ UNCHANGED <<now, licenses>>
    /\ UNCHANGED <<agentVars, srvVars, monVars, sideVars, opsVars>>

\* ActivateLicense: latch the binding (best effort), build the response
ActBind(p) ==
    /\ act[p].pc = "bind"
    /\ LET lic == CHOOSE l \in act[p].lic : TRUE
           machine == act[p].req.machine_id
           inst == CHOOSE r \in act[p].existing : TRUE
           bound == IF ShouldBind(lic, machine)
                    THEN [lic EXCEPT !.bound_to = machine] ELSE lic
       IN  /\ licenses' = IF ShouldBind(lic, machine)
                          THEN LicenseUpdate(licenses, bound)
                          ELSE licenses
           /\ act' = [act EXCEPT
                        ![p].pc = "done",
                        ![p].res = {Success(inst.id, inst.instance_id,
                                            act[p].apiKey, bound.bound_to)}]
    /\ UNCHANGED <<now, instances>>
    /\ UNCHANGED <<agentVars, srvVars, monVars, sideVars, opsVars>>

InitLicensing ==
    /\ now = 0
    /\ licenses = {}
    /\ instances = {}
    /\ act = [p \in Procs |-> ActIdle]

NextActivation ==
    \/ \E k \in LicKeys, t \in LicenseTypes, e \in ExpiryTimes :
          CreateLicense(k, t, e)
    \/ Tick
    \/ \E p \in Procs, req \in Requests : ActStart(p, req)
    \/ \E p \in Procs, rnd \in RandSuffixes : ActGetLicense(p, rnd)
    \/ \E p \in Procs : ActLookup(p)
    \/ \E p \in Procs : ActUpdate(p)
    \/ \E p \in Procs : ActCreate(p)
    \/ \E p \in Procs : ActBind(p)

(***************************************************************************)
(* Agent: Updater.ApplyUpdate for one product on one host.                 *)
(* A file is the sequence of chunks written to it; Absent is a path with   *)
(* no file.  A binary is complete when it has all its chunks.              *)
(***************************************************************************)
\* versions of the product
Versions == {"v1", "v2"}
\* the bytes of a version's binary, as two chunks of an io.Copy
Binary(v) == <<v, v>>
Absent == <<"ENOENT">>
IsBinary(f) == \E v \in Versions : f = Binary(v)
\* what a write that fails before the last chunk leaves of the bytes f
CutShort(f) == IF Len(f) = 0 THEN f ELSE SubSeq(f, 1, Len(f) - 1)

\* systemctl start succeeds on a complete binary of a version that runs
Startable(f) == \E v \in Versions \ badVersions : f = Binary(v)

Stopped == [running |-> FALSE, image |-> Absent]

\* backupPath: <product>.<currentVersion>.bak; no such file for an empty
\* currentVersion
BackupAt(cv) == IF cv = "" THEN Absent ELSE backups[cv]

ApIdle ==
    [pc |-> "idle", latest |-> "", cv |-> "", prior |-> Absent,
     priorRunning |-> FALSE, truncated |-> FALSE, startFailed |-> FALSE,
     renameFailed |-> FALSE, ret |-> "", cont |-> ""]

\* the step after copyFile(backupPath, productCfg.Binary) in ApplyUpdate:
\* return the error (rename failed) or start the service again (rollback)
AfterCopy(a) ==
    IF a.cont = "return"
    THEN [a EXCEPT !.pc = "idle", !.ret = "error"]
    ELSE [a EXCEPT !.pc = "restart"]

\* Checker.checkAllUpdates: CheckUpdate reported an update (the latest
\* version differs from the version file), ApplyUpdate is entered
ApplyStart(v) ==
    /\ ap.pc = "idle"
    /\ applies < MaxApplies
    /\ v # versionFile
    /\ ap' = [ApIdle EXCEPT !.pc = "download", !.latest = v,
                            !.prior = target, !.priorRunning = svc.running]
    /\ applies' = applies + 1
    /\ UNCHANGED <<target, temp, backups, versionFile, svc, badVersions>>
    /\ UNCHANGED <<licVars, srvVars, monVars, sideVars, opsVars>>

\* downloadFile: a non-200 answer is an error; a read error in mid-stream
\* ends the loop and nil is returned with the bytes read so far
Download(outcome) ==
    /\ ap.pc = "download"
    /\ IF outcome = "fail"
       THEN /\ ap' = [ap EXCEPT !.pc = "idle", !.ret = "error"]
            /\ UNCHANGED temp
       ELSE /\ temp' = IF outcome = "full"
                       THEN Binary(ap.latest)
                       ELSE CutShort(Binary(ap.latest))
            /\ ap' = [ap EXCEPT !.pc = "backup",
                                !.truncated = (outcome # "full")]
    /\ UNCHANGED <<target, backups, versionFile, svc, badVersions, applies>>
    /\ UNCHANGED <<licVars, srvVars, monVars, sideVars, opsVars>>

\* ApplyUpdate: back up the current binary; a failed copy is only logged
Backup(outcome) ==
    /\ ap.pc = "backup"
    /\ LET cv == versionFile
       IN  /\ backups' =
                 IF cv # "" /\ target # Absent /\ outcome # "nocreate"
                 THEN [backups EXCEPT ![cv] =
                          IF outcome = "ok" THEN target
                          ELSE CutShort(target)]
                 ELSE backups
           /\ ap' = [ap EXCEPT !.pc = "stop", !.cv = cv]
    /\ UNCHANGED <<target, temp, versionFile, svc, badVersions, applies>>
    /\ UNCHANGED <<licVars, srvVars, monVars, sideVars, opsVars>>

\* ApplyUpdate: systemctl stop; a failure is logged and ignored
StopService(ok) ==
    /\ ap.pc = "stop"
    /\ svc' = IF ok THEN Stopped ELSE svc
    /\ ap' = [ap EXCEPT !.pc = "rename"]
    /\ UNCHANGED <<target, temp, backups, versionFile, badVersions, applies>>
    /\ UNCHANGED <<licVars, srvVars, monVars, sideVars, opsVars>>

\* ApplyUpdate: os.Rename(tempPath, productCfg.Binary)
Rename(ok) ==
    /\ ap.pc = "rename"
    /\ IF ok /\ temp # Absent
       THEN /\ target' = temp
            /\ temp' = Absent
            /\ ap' = [ap EXCEPT !.pc = "start"]
       ELSE /\ ap' = [ap EXCEPT !.pc = "copy", !.cont = "return",
                                !.renameFailed = TRUE]
            /\ UNCHANGED <<target, temp>>
    /\ UNCHANGED <<backups, versionFile, svc, badVersions, applies>>
    /\ UNCHANGED <<licVars, srvVars, monVars, sideVars, opsVars>>

\* mutant of StartService: the version file is written before the start
StartServiceCommitting ==
    /\ ap.pc = "start"
    /\ versionFile' = ap.latest
    /\ IF svc.running \/ Startable(target)
       THEN /\ svc' = IF svc.running THEN svc
                      ELSE [running |-> TRUE, image |-> target]
            /\ ap' = [ap EXCEPT !.pc = "commit"]
       ELSE /\ ap' = [ap EXCEPT !.pc = "copy", !.cont = "restart",
                                !.startFailed = TRUE]
            /\ UNCHANGED svc
    /\ UNCHANGED <<target, temp, backups, badVersions, applies>>
    /\ UNCHANGED <<licVars, srvVars, monVars, sideVars, opsVars>>

\* ApplyUpdate: chmod, then systemctl start (a no-op on a running unit)
StartService ==
    /\ ap.pc = "start"
    /\ IF svc.running \/ Startable(target)
       THEN /\ svc' = IF svc.running THEN svc
                      ELSE [running |-> TRUE, image |-> target]
            /\ ap' = [ap EXCEPT !.pc = "commit"]
       ELSE /\ ap' = [ap EXCEPT !.pc = "copy", !.cont = "restart",
                                !.startFailed = TRUE]
            /\ UNCHANGED svc
    /\ UNCHANGED <<target, temp, backups, versionFile, badVersions, applies>>
    /\ UNCHANGED <<licVars, srvVars, monVars, sideVars, opsVars>>

\* copyFile(backupPath, target): os.Open(src), then os.Create(dst), which
\* truncates the target
CopyOpen ==
    /\ ap.pc = "copy"
    /\ LET src == BackupAt(ap.cv)
       IN  IF src = Absent
           THEN /\ ap' = AfterCopy(ap)
                /\ UNCHANGED target
           ELSE /\ target' = <<>>
                /\ ap' = IF Len(src) = 0 THEN AfterCopy(ap)
                         ELSE [ap EXCEPT !.pc = "copywrite"]
    /\ UNCHANGED <<temp, backups, versionFile, svc, badVersions, applies>>
    /\ UNCHANGED <<licVars, srvVars, monVars, sideVars, opsVars>>

\* copyFile: io.Copy writes the next chunk, or fails; ApplyUpdate ignores
\* the error
CopyWrite(ok) ==
    /\ ap.pc = "copywrite"
    /\ LET src == BackupAt(ap.cv)
       IN  IF ok
           THEN /\ target' = Append(target, src[Len(target) + 1])
                /\ ap' = IF Len(target) + 1 = Len(src)
                         THEN AfterCopy(ap) ELSE ap
           ELSE /\ ap' = AfterCopy(ap)
                /\ UNCHANGED target
    /\ UNCHANGED <<temp, backups, versionFile, svc, badVersions, applies>>
    /\ UNCHANGED <<licVars, srvVars, monVars, sideVars, opsVars>>

\* ApplyUpdate, rollback: systemctl start once more, result ignored
Restart ==
    /\ ap.pc = "restart"
    /\ svc' = IF ~svc.running /\ Startable(target)
              THEN [running |-> TRUE, image |-> target] ELSE svc
    /\ ap' = [ap EXCEPT !.pc = "idle", !.ret = "error"]
    /\ UNCHANGED <<target, temp, backups, versionFile, badVersions, applies>>
    /\ UNCHANGED <<licVars, srvVars, monVars, sideVars, opsVars>>

\* ApplyUpdate: write the new version to the version file (the error of
\* os.WriteFile is dropped), return nil
Commit(ok) ==
    /\ ap.pc = "commit"
    /\ versionFile' = IF ok THEN ap.latest ELSE versionFile
    /\ ap' = [ap EXCEPT !.pc = "idle", !.ret = "ok"]
    /\ UNCHANGED <<target, temp, backups, svc, badVersions, applies>>
    /\ UNCHANGED <<licVars, srvVars, monVars, sideVars, opsVars>>

\* the host after bootstrap: the product installed at v1 and running, or not
\* installed (its download failed); v2 may be a release that does not start
InitAgent ==
    /\ badVersions \in {{}, {"v2"}}
    /\ \E installed \in BOOLEAN :
          /\ target = IF installed THEN Binary("v1") ELSE Absent
          /\ versionFile = IF installed THEN "v1" ELSE ""
          /\ svc = IF installed
                   THEN [running |-> TRUE, image |-> Binary("v1")]
                   ELSE Stopped
    /\ temp = Absent
    /\ backups = [v \in Versions |-> Absent]
    /\ ap = ApIdle
    /\ applies = 0

\* a host on which the agent takes no step
AgentAtRest ==
    /\ badVersions = {}
    /\ target = Binary("v1")
    /\ versionFile = "v1"
    /\ svc = [running |-> TRUE, image |-> Binary("v1")]
    /\ temp = Absent
    /\ backups = [v \in Versions |-> Absent]
    /\ ap = ApIdle
    /\ applies = 0

NextApply ==
    \/ \E v \in Versions : ApplyStart(v)
    \/ \E o \in {"fail", "full", "truncated"} : Download(o)
    \/ \E o \in {"ok", "partial", "nocreate"} : Backup(o)
    \/ \E ok \in BOOLEAN : StopService(ok)
    \/ \E ok \in BOOLEAN : Rename(ok)
    \/ StartService
    \/ CopyOpen
    \/ \E ok \in BOOLEAN : CopyWrite(ok)
    \/ Restart
    \/ \E ok \in BOOLEAN : Commit(ok)

(***************************************************************************)
(* Server: the release catalog, the artifact store and the heartbeat.      *)
(***************************************************************************)
\* released products; "Q" is a product no release is uploaded for
Products == {"P"}
Filenames == {"a"}
\* the files an administrator uploads
Blobs == {"x", "y"}
\* the bytes of uploaded file b, as two chunks of an io.Copy
Bytes(b) == <<b, b>>
\* sha256 of a file's bytes, hex encoded
Sha256(f) == <<"sha256", f>>

\* LocalStorage.GetPath: basePath/product/version/filename
GetPath(product, version, filename) == <<product, version, filename>>
StoreKeys == {GetPath(pr, v, f) : pr \in Products, v \in Versions, f \in Filenames}

\* the multipart forms posted to handleUploadRelease: every version, the
\* channel absent or beta, and one form without a version
UploadRequests ==
    [product : Products, version : Versions, channel : {"", "beta"},
     filename : Filenames, blob : Blobs]
    \cup {[product |-> "P", version |-> "", channel |-> "", filename |-> "a",
           blob |-> "x"]}

\* the requests PUT to handleUploadBinary
BinaryRequests ==
    [product : Products, version : Versions, channel : {""},
     filename : Filenames, blob : Blobs]

NoUpload ==
    [product |-> "", version |-> "", channel |-> "", filename |-> "",
     blob |-> ""]

UpIdle ==
    [pc |-> "idle", kind |-> "", req |-> NoUpload, off |-> 0, status |-> 0,
     error |-> ""]

\* the file f after a write of chunk c at offset off of an open handle; a
\* write past the end (the file was truncated meanwhile) leaves a hole of
\* zeroes
WriteAt(f, off, c) ==
    [i \in 1..(IF off + 1 > Len(f) THEN off + 1 ELSE Len(f)) |->
        IF i = off + 1 THEN c
        ELSE IF i <= Len(f) THEN f[i] ELSE "0"]

\* the upload handler of flow p writes its HTTP status and error message
UpDone(p, status, msg) ==
    up' = [up EXCEPT ![p].pc = "done", ![p].status = status, ![p].error = msg]

\* an upload flow is free once it has answered
UpFree(p) == up[p].pc \in {"idle", "done"}

\* handleUploadRelease: the channel defaults to stable, product and version
\* are required, then Service.CreateRelease
UploadStart(p, req) ==
    /\ UpFree(p)
    /\ served < MaxRequests
    /\ served' = served + 1
    /\ LET form == [req EXCEPT !.channel = IF req.channel = "" THEN "stable"
                                           ELSE req.channel]
       IN  up' = [up EXCEPT ![p] =
                    IF form.product = "" \/ form.version = ""
                    THEN [pc |-> "done", kind |-> "release", req |-> form,
                          off |-> 0, status |-> 400,
                          error |-> "product and version are required"]
                    ELSE [pc |-> "save", kind |-> "release", req |-> form,
                          off |-> 0, status |-> 0, error |-> ""]]
    /\ UNCHANGED <<store, releases, hb>>
    /\ UNCHANGED <<licVars, agentVars, monVars, sideVars, opsVars>>

\* handleUploadBinary: storage.Save of the request body, no catalog row
UploadBinaryStart(p, req) ==
    /\ UpFree(p)
    /\ served < MaxRequests
    /\ served' = served + 1
    /\ up' = [up EXCEPT ![p] = [pc |-> "save", kind |-> "binary",
                                req |-> req, off |-> 0, status |-> 0,
                                error |-> ""]]
    /\ UNCHANGED <<store, releases, hb>>
    /\ UNCHANGED <<licVars, agentVars, monVars, sideVars, opsVars>>

\* LocalStorage.Save: os.Create(path) truncates the file at path
SaveCreate(p, ok) ==
    /\ up[p].pc = "save"
    /\ LET r == up[p].req
       IN  IF ok
           THEN /\ store' = [store EXCEPT
                               ![GetPath(r.product, r.version, r.filename)] = <<>>]
                /\ up' = [up EXCEPT ![p].pc = "write"]
           ELSE /\ UpDone(p, 500, "failed to save")
                /\ UNCHANGED store
    /\ UNCHANGED <<releases, hb, served>>
    /\ UNCHANGED <<licVars, agentVars, monVars, sideVars, opsVars>>

\* LocalStorage.Save: io.Copy writes the next chunk or fails; on failure the
\* handler answers 500 and the file stays as written so far
SaveWrite(p, ok) ==
    /\ up[p].pc = "write"
    /\ LET r == up[p].req
           k == GetPath(r.product, r.version, r.filename)
           src == Bytes(r.blob)
           off == up[p].off
       IN  IF ok
           THEN /\ store' = [store EXCEPT
                               ![k] = WriteAt(@, off, src[off + 1])]
                /\ IF off + 1 < Len(src)
                   THEN up' = [up EXCEPT ![p].off = off + 1]
                   ELSE IF up[p].kind = "binary"
                        THEN UpDone(p, 200, "")
                        ELSE up' = [up EXCEPT ![p].pc = "insert"]
           ELSE /\ UpDone(p, 500, "failed to save")
                /\ UNCHANGED store
    /\ UNCHANGED <<releases, hb, served>>
    /\ UNCHANGED <<licVars, agentVars, monVars, sideVars, opsVars>>

\* the UNIQUE (product_name, version) constraint rejects the INSERT
ReleaseInsertConflicts(rows, rel) ==
    \E r \in rows : r.product_name = rel.product_name /\ r.version = rel.version

\* CreateRelease: the checksum of the bytes read, then Repository.Create;
\* released_at is time.Now()
InsertRelease(p) ==
    /\ up[p].pc = "insert"
    /\ LET r == up[p].req
           rel == [product_name |-> r.product, version |-> r.version,
                   channel |-> r.channel, artifact |-> r.filename,
                   checksum |-> Sha256(Bytes(r.blob)), released_at |-> now]
       IN  IF ReleaseInsertConflicts(releases, rel)
           THEN /\ up' = [up EXCEPT ![p].pc = "cleanup"]
                /\ UNCHANGED releases
           ELSE /\ releases' = releases \cup {rel}
                /\ UpDone(p, 201, "")
    /\ UNCHANGED <<store, hb, served>>
    /\ UNCHANGED <<licVars, agentVars, monVars, sideVars, opsVars>>

\* mutant of Cleanup: the artifact is left in the store
CleanupKeeping(p) ==
    /\ up[p].pc = "cleanup"
    /\ UpDone(p, 500, "failed to create release")
    /\ UNCHANGED <<store, releases, hb, served>>
    /\ UNCHANGED <<licVars, agentVars, monVars, sideVars, opsVars>>

\* CreateRelease: the insert failed, storage.Delete of the artifact, 500
Cleanup(p) ==
    /\ up[p].pc = "cleanup"
    /\ LET r == up[p].req
       IN  store' = [store EXCEPT
                       ![GetPath(r.product, r.version, r.filename)] = Absent]
    /\ UpDone(p, 500, "failed to create release")
    /\ UNCHANGED <<releases, hb, served>>
    /\ UNCHANGED <<licVars, agentVars, monVars, sideVars, opsVars>>

\* the server wall clock advances
ServerTick ==
    /\ now < MaxClock
    /\ now' = now + 1
    /\ UNCHANGED <<licenses, instances, act>>
    /\ UNCHANGED <<agentVars, srvVars, monVars, sideVars, opsVars>>

\* mutant of GetLatestByProduct: ORDER BY released_at ASC
GetOldestByProduct(product, channel) ==
    LET onChannel == {r \in releases :
                         r.product_name = product /\ r.channel = channel}
    IN  {r \in onChannel :
            \A q \in onChannel : q.released_at >= r.released_at}

\* Repository.GetLatestByProduct: ORDER BY released_at DESC LIMIT 1; among
\* rows of equal released_at any one may be returned
GetLatestByProduct(product, channel) ==
    LET onChannel == {r \in releases :
                         r.product_name = product /\ r.channel = channel}
    IN  {r \in onChannel :
            \A q \in onChannel : q.released_at <= r.released_at}

\* mutant of GetLatestRelease: update_available compares nothing
GetLatestReleaseAlways(release, currentVersion) ==
    [product |-> release.product_name, current_version |-> currentVersion,
     latest_version |-> release.version, update_available |-> TRUE,
     channel |-> release.channel, checksum |-> release.checksum]

\* Service.GetLatestRelease, for the row GetLatestByProduct returned
GetLatestRelease(release, currentVersion) ==
    [product |-> release.product_name, current_version |-> currentVersion,
     latest_version |-> release.version,
     update_available |->
         (currentVersion = "" \/ currentVersion # release.version),
     channel |-> release.channel, checksum |-> release.checksum]

\* handleHeartbeat, the loop over heartbeat.Products: the updates lists it
\* can build
RECURSIVE UpdatesFor(_)
UpdatesFor(products) ==
    IF products = <<>> THEN {<<>>}
    ELSE LET h == Head(products)
             infos == {GetLatestRelease(r, h.version) :
                          r \in GetLatestByProduct(h.name, h.channel)}
             heads == {<<i>> : i \in {j \in infos : j.update_available}}
                      \cup (IF infos = {} \/ \E j \in infos : ~j.update_available
                            THEN {<<>>} ELSE {})
         IN  {x \o y : x \in heads, y \in UpdatesFor(Tail(products))}

\* a product report of a heartbeat
Report(name, version, channel) ==
    [name |-> name, version |-> version, channel |-> channel]

\* the product lists of a heartbeat: no version reported, two reports of one
\* product, a product without releases, no channel reported, no product
ProductLists ==
    {<<Report("P", "", "stable")>>,
     <<Report("P", "v1", "stable"), Report("P", "v2", "stable")>>,
     <<Report("P", "v1", "beta"), Report("Q", "v1", "stable")>>,
     <<Report("P", "v1", "")>>,
     <<>>}

\* the instance activated before the heartbeats start
KnownInstance ==
    [id |-> NewUUID(1),
     instance_id |-> generateInstanceID(<<"S", "c">>, <<"A", ".", "b">>, <<"0">>),
     instance_type |-> <<"S", "c">>,
     hostname |-> <<"A", ".", "b">>,
     license_id |-> NewUUID("K1"),
     api_key_hash |-> HashAPIKey(GenerateAPIKey(1)),
     status |-> "online",
     last_heartbeat |-> -1]

\* heartbeats: of the known instance with every product list, of an unknown
\* instance, and without an instance_id
Heartbeats ==
    [instance_id : {KnownInstance.instance_id}, products : ProductLists]
    \cup {[instance_id |-> <<"n", "o">>, products |-> <<>>],
          [instance_id |-> <<>>, products |-> <<>>]}

HbIdle ==
    [pc |-> "idle", req |-> [instance_id |-> <<>>, products |-> <<>>],
     received |-> 0, at |-> 0, status |-> 0, updates |-> <<>>]

\* handleHeartbeat: decode the body, instance_id is required.  Request
\* flows are interchangeable, so flow p is taken into use after flow p-1.
HbStart(p, req) ==
    /\ hb[p].pc = "idle"
    /\ \A q \in Procs : q < p => hb[q].pc # "idle"
    /\ hb' = [hb EXCEPT ![p] =
                IF req.instance_id = <<>>
                THEN [HbIdle EXCEPT !.pc = "done", !.req = req,
                                    !.received = now, !.status = 400]
                ELSE [HbIdle EXCEPT !.pc = "now", !.req = req,
                                    !.received = now]]
    /\ UNCHANGED <<store, releases, up, served>>
    /\ UNCHANGED <<licVars, agentVars, monVars, sideVars, opsVars>>

\* InstanceRepository.UpdateHeartbeat: now := time.Now()
HbNow(p) ==
    /\ hb[p].pc = "now"
    /\ hb' = [hb EXCEPT ![p].pc = "exec", ![p].at = now]
    /\ UNCHANGED <<store, releases, up, served>>
    /\ UNCHANGED <<licVars, agentVars, monVars, sideVars, opsVars>>

\* mutant of HeartbeatUpdate: INSERT ... ON CONFLICT (instance_id) DO UPDATE
HeartbeatUpsert(rows, iid, at) ==
    IF \E r \in rows : r.instance_id = iid
    THEN {IF r.instance_id = iid
          THEN [r EXCEPT !.last_heartbeat = at, !.status = "online"]
          ELSE r : r \in rows}
    ELSE rows \cup {[KnownInstance EXCEPT !.instance_id = iid,
                                          !.last_heartbeat = at]}

\* InstanceRepository.UpdateHeartbeat: UPDATE instances SET last_heartbeat,
\* status = 'online' WHERE instance_id = $1
HeartbeatUpdate(rows, iid, at) ==
    {IF r.instance_id = iid
     THEN [r EXCEPT !.last_heartbeat = at, !.status = "online"]
     ELSE r : r \in rows}

HbExec(p) ==
    /\ hb[p].pc = "exec"
    /\ instances' = HeartbeatUpdate(instances, hb[p].req.instance_id, hb[p].at)
    /\ hb' = [hb EXCEPT ![p].pc = "respond"]
    /\ UNCHANGED <<now, licenses, act>>
    /\ UNCHANGED <<store, releases, up, served>>
    /\ UNCHANGED <<agentVars, monVars, sideVars, opsVars>>

\* handleHeartbeat: look up the latest release of every reported product and
\* answer 200 with the updates
HbRespond(p) ==
    /\ hb[p].pc = "respond"
    /\ \E u \in UpdatesFor(hb[p].req.products) :
          hb' = [hb EXCEPT ![p].pc = "done", ![p].status = 200,
                           ![p].updates = u]
    /\ UNCHANGED <<store, releases, up, served>>
    /\ UNCHANGED <<licVars, agentVars, monVars, sideVars, opsVars>>

\* the staleness threshold handed to UpdateOfflineInstances, in clock units
OfflineThreshold == 1

\* InstanceRepository.UpdateOfflineInstances: UPDATE instances SET status =
\* 'offline' WHERE last_heartbeat < cutoff AND status = 'online' (a NULL
\* last_heartbeat never compares less).  No handler and no background loop
\* of the server calls it, so no action applies it.
UpdateOfflineInstances(rows, threshold) ==
    {IF r.last_heartbeat >= 0 /\ r.last_heartbeat < now - threshold
        /\ r.status = "online"
     THEN [r EXCEPT !.status = "offline"]
     ELSE r : r \in rows}

\* the server started on an empty catalog and an empty store
InitServer ==
    /\ store = [k \in StoreKeys |-> Absent]
    /\ releases = {}
    /\ up = [p \in Procs |-> UpIdle]
    /\ hb = [p \in Procs |-> HbIdle]
    /\ served = 0

\* the database after one license was created and one instance activated
InitActivated ==
    /\ now = 0
    /\ licenses = {[id |-> NewUUID("K1"), license_key |-> "K1",
                    type |-> <<"S", "c">>, is_active |-> TRUE,
                    expires_at |-> 1, bound_to |-> ""]}
    /\ instances = {KnownInstance}
    /\ act = [p \in Procs |-> ActIdle]

NextRelease ==
    \/ \E p \in Procs, req \in UploadRequests : UploadStart(p, req)
    \/ \E p \in Procs, req \in BinaryRequests : UploadBinaryStart(p, req)
    \/ \E p \in Procs, ok \in BOOLEAN : SaveCreate(p, ok)
    \/ \E p \in Procs, ok \in BOOLEAN : SaveWrite(p, ok)
    \/ \E p \in Procs : InsertRelease(p)
    \/ \E p \in Procs : Cleanup(p)

\* releases are uploaded while one agent sends a heartbeat
NextOffer ==
    \/ \E req \in UploadRequests : req.blob = "x" /\ UploadStart(1, req)
    \/ SaveCreate(1, TRUE)
    \/ SaveWrite(1, TRUE)
    \/ InsertRelease(1)
    \/ Cleanup(1)
    \/ ServerTick
    \/ \E req \in Heartbeats : HbStart(1, req)
    \/ HbNow(1)
    \/ HbExec(1)
    \/ HbRespond(1)

\* heartbeats arrive concurrently
NextHeartbeat ==
    \/ ServerTick
    \/ \E p \in Procs, req \in Heartbeats : HbStart(p, req)
    \/ \E p \in Procs : HbNow(p)
    \/ \E p \in Procs : HbExec(p)
    \/ \E p \in Procs : HbRespond(p)

(***************************************************************************)
(* Agent: Monitor, the restart governor of one service.                    *)
(* Time is counted in units of 5 seconds.                                  *)
(***************************************************************************)
\* the ticker period of Monitor.Start, 30 s
TickerPeriod == 6
\* the restart cooldown of restartService, 30 s
RestartCooldown == 6
\* the restart count at which restartService gives up
MaxRestarts == 5

\* restartService: the cooldown and give-up checks pass
MayRestart(t) ==
    /\ \A l \in lastRestart : ~(t - l < RestartCooldown)
    /\ ~(restartCount >= MaxRestarts)

\* Monitor.checkAllServices at a tick of the ticker, for the one service:
\* healthy is the answer of checkHealth, cmdOk the result of systemctl
\* restart and d the time the command took
CheckService(healthy, cmdOk, d) ==
    /\ mtime <= MaxTicks * TickerPeriod
    /\ LET wants == \/ unit = "active" /\ hasHealth /\ ~healthy
                    \/ unit \in {"failed", "inactive"}
           runs == wants /\ MayRestart(mtime)
           counted == runs /\ cmdOk
           count1 == IF counted THEN restartCount + 1 ELSE restartCount
       IN  /\ attemptTimes' = IF runs THEN Append(attemptTimes, mtime)
                              ELSE attemptTimes
           /\ lastRestart' = IF counted THEN {mtime + d} ELSE lastRestart
           /\ restartCount' = IF unit = "active" THEN 0 ELSE count1
           /\ unit' = IF runs THEN (IF cmdOk THEN "active" ELSE "failed")
                      ELSE unit
    /\ mtime' = mtime + TickerPeriod
    /\ UNCHANGED hasHealth
    /\ UNCHANGED <<licVars, agentVars, srvVars, sideVars, opsVars>>

\* the service crashes or exits between two ticks
Crash(status) ==
    /\ unit = "active"
    /\ unit' = status
    /\ UNCHANGED <<mtime, hasHealth, restartCount, lastRestart, attemptTimes>>
    /\ UNCHANGED <<licVars, agentVars, srvVars, sideVars, opsVars>>

\* the monitor starts with empty maps on a service that has crashed
InitMonitor ==
    /\ mtime = TickerPeriod
    /\ unit \in {"failed", "inactive"}
    /\ hasHealth \in BOOLEAN
    /\ restartCount = 0
    /\ lastRestart = {}
    /\ attemptTimes = <<>>

\* a host whose monitor takes no step
MonitorAtRest ==
    /\ mtime = TickerPeriod
    /\ unit = "active"
    /\ hasHealth = FALSE
    /\ restartCount = 0
    /\ lastRestart = {}
    /\ attemptTimes = <<>>

NextMonitor ==
    \/ \E healthy \in BOOLEAN, cmdOk \in BOOLEAN, d \in {0, 1} :
          CheckService(healthy, cmdOk, d)
    \/ \E st \in {"failed", "inactive"} : Crash(st)

(***************************************************************************)
(* Server: the license probe and the license administration.               *)
(***************************************************************************)
NoProbe ==
    [status |-> 0, key |-> "", machine |-> "", at |-> 0, valid |-> FALSE,
     license |-> {}]

\* handleLicenseValidate / Service.ValidateLicense: the body is decoded into
\* a struct with the one field license_key, so a machine id sent with it is
\* dropped; 404 when no row has the key, else 200 with valid = is_active
LicenseValidate(key, machine) ==
    /\ LET found == GetByKey(key)
       IN  probe' = [status |-> IF found = {} THEN 404 ELSE 200,
                     key |-> key, machine |-> machine, at |-> now,
                     valid |-> \E l \in found : l.is_active,
                     license |-> found]
    /\ UNCHANGED <<wall, window, chk, adminKey, gate, daemon, loops>>
    /\ UNCHANGED <<licVars, agentVars, srvVars, monVars, opsVars>>

\* handleUpdateLicense with the body {"is_active": active}: GetLicense, set
\* the field, Repository.Update; taken here as one step
SetActive(key, active) ==
    /\ \E l \in GetByKey(key) :
          /\ l.is_active # active
          /\ licenses' = LicenseUpdate(licenses, [l EXCEPT !.is_active = active])
    /\ UNCHANGED <<now, instances, act, sideVars>>
    /\ UNCHANGED <<agentVars, srvVars, monVars, opsVars>>

\* activations that name their host, the clock, and the administration
NextLicensing ==
    \/ \E k \in LicKeys, t \in LicenseTypes, e \in ExpiryTimes :
          CreateLicense(k, t, e)
    \/ Tick
    \/ \E p \in Procs, req \in Requests :
          (req.license_key \in LicKeys => req.hostname # <<>>) /\ ActStart(p, req)
    \/ \E p \in Procs, rnd \in RandSuffixes : ActGetLicense(p, rnd)
    \/ \E p \in Procs : ActLookup(p)
    \/ \E p \in Procs : ActUpdate(p)
    \/ \E p \in Procs : ActCreate(p)
    \/ \E p \in Procs : ActBind(p)
    \/ \E k \in LicKeys, a \in BOOLEAN : SetActive(k, a)

\* probes while one request flow activates and the license is administered
NextProbe ==
    \/ \E k \in LicKeys \cup {"KX"}, m \in MachineIDs : LicenseValidate(k, m)
    \/ ServerTick
    \/ \E k \in LicKeys, a \in BOOLEAN : SetActive(k, a)
    \/ \E req \in Requests : ActStart(1, req)
    \/ \E rnd \in RandSuffixes : ActGetLicense(1, rnd)
    \/ ActLookup(1)
    \/ ActUpdate(1)
    \/ ActCreate(1)
    \/ ActBind(1)

(***************************************************************************)
(* Agent: the update checker's loop and its maintenance window.            *)
(* Times of day are <<hour, minute>>; the day is sampled at DayTimes.      *)
(***************************************************************************)
DayTimes == <<<<0, 0>>, <<0, 30>>, <<23, 0>>, <<23, 30>>>>

\* isInMaintenanceWindow: Hour()*60 + Minute()
Minutes(t) == t[1] * 60 + t[2]

\* Checker.isInMaintenanceWindow at wall-clock time t
isInMaintenanceWindow(t) ==
    IF window = {} THEN TRUE
    ELSE LET w == CHOOSE x \in window : TRUE
             currentMinutes == Minutes(t)
             startMinutes == Minutes(w.start)
             endMinutes == Minutes(w.end)
         IN  IF startMinutes < endMinutes
             THEN currentMinutes >= startMinutes /\ currentMinutes <= endMinutes
             ELSE currentMinutes >= startMinutes \/ currentMinutes <= endMinutes

\* Checker.checkAllUpdates with AutoUpdate on: where CheckUpdate reports an
\* update it goes on to ApplyUpdate
checkAllUpdates(hasUpdate, initial) ==
    IF hasUpdate
    THEN chk' = [pc |-> "loop",
                 applied |-> chk.applied \cup {[at |-> wall, initial |-> initial]}]
    ELSE chk' = [chk EXCEPT !.pc = "loop"]

\* Checker.Start: the initial check, ten seconds after the daemon started
CheckerStart(hasUpdate) ==
    /\ chk.pc = "start"
    /\ checkAllUpdates(hasUpdate, TRUE)
    /\ UNCHANGED <<probe, wall, window, adminKey, gate, daemon, loops>>
    /\ UNCHANGED <<licVars, agentVars, srvVars, monVars, opsVars>>

\* Checker.Start: one receipt from ticker.C
CheckerTick(hasUpdate) ==
    /\ chk.pc = "loop"
    /\ IF isInMaintenanceWindow(wall) \/ window = {}
       THEN checkAllUpdates(hasUpdate, FALSE)
       ELSE UNCHANGED chk
    /\ UNCHANGED <<probe, wall, window, adminKey, gate, daemon, loops>>
    /\ UNCHANGED <<licVars, agentVars, srvVars, monVars, opsVars>>

\* the host's wall clock moves to the next sampled time of day
WallTick ==
    /\ \E i \in DOMAIN DayTimes :
          /\ wall = DayTimes[i]
          /\ wall' = DayTimes[(i % Len(DayTimes)) + 1]
    /\ UNCHANGED <<probe, window, chk, adminKey, gate, daemon, loops>>
    /\ UNCHANGED <<licVars, agentVars, srvVars, monVars, opsVars>>

(***************************************************************************)
(* Server: the guards in front of the admin and dashboard routes.          *)
(* An Authorization header is the sequence of its parts around the first   *)
(* space, <<>> when the header is absent.                                  *)
(***************************************************************************)
\* the routes setupRoutes registers behind adminAuth, behind JWTMiddleware
\* and RequireRole("admin"), behind OptionalJWTMiddleware, and behind
\* nothing
Routes(guard) ==
    CASE guard = "adminAuth" ->
           {"POST /releases", "PUT /releases/{product}/{version}/{filename}"}
      [] guard = "JWTMiddleware" ->
           {"DELETE /instances/{id}", "POST /admin/licenses",
            "PUT /admin/licenses/{id}", "DELETE /admin/licenses/{id}"}
      [] guard = "OptionalJWTMiddleware" ->
           {"GET /instances", "GET /instances/{id}"}
      [] guard = "none" ->
           {"GET /admin/licenses", "GET /admin/licenses/{id}"}

\* requests: the X-API-Key header, the api_key query parameter and the
\* Authorization header
GateRequests ==
    [key : {"", "adm", "bad"}, query : {"", "adm"},
     authorization : {<<>>, <<"ta">>, <<"Basic", "ta">>, <<"Bearer", "ta">>,
                      <<"bearer", "ta">>, <<"Bearer", "tv">>,
                      <<"Bearer", "to">>, <<"Bearer", "tx">>}]

\* Service.GetUserFromToken: ta is the session of an admin, tv of a viewer,
\* to of a disabled admin; any other token is invalid or expired
GetUserFromToken(token) ==
    CASE token = "ta" -> {[role |-> "admin", is_active |-> TRUE]}
      [] token = "tv" -> {[role |-> "viewer", is_active |-> TRUE]}
      [] token = "to" -> {[role |-> "admin", is_active |-> FALSE]}
      [] OTHER -> {}

\* strings.ToLower on the schemes sent
LowerScheme(s) == IF s = "Bearer" THEN "bearer" ELSE s

\* Server.adminAuth: the status it answers, 0 when it calls next
adminAuth(req) ==
    IF adminKey = "" THEN 0
    ELSE LET apiKey == IF req.key = "" THEN req.query ELSE req.key
         IN  IF apiKey # adminKey THEN 401 ELSE 0

\* JWTMiddleware followed by RequireRole(role): the status answered, 0 when
\* next is called
JWTMiddleware(req, role) ==
    LET parts == req.authorization
    IN  IF parts = <<>> THEN 401
        ELSE IF Len(parts) # 2 \/ LowerScheme(parts[1]) # "bearer" THEN 401
        ELSE LET user == GetUserFromToken(parts[2])
             IN  IF user = {} THEN 401
                 ELSE IF \E u \in user : ~u.is_active THEN 403
                 ELSE IF \E u \in user : u.role # role THEN 403
                 ELSE 0

\* OptionalJWTMiddleware: next is called whatever the header holds
OptionalJWTMiddleware(req) == 0

NoGate ==
    [route |-> "", req |-> [key |-> "", query |-> "", authorization |-> <<>>],
     status |-> 0, ran |-> FALSE]

\* one request to a guarded route: the guard answers or the handler runs
Serve(route, req, status) ==
    /\ gate' = [route |-> route, req |-> req, status |-> status,
                ran |-> status = 0]
    /\ UNCHANGED <<probe, wall, window, chk, adminKey, daemon, loops>>
    /\ UNCHANGED <<licVars, agentVars, srvVars, monVars, opsVars>>

NextGate ==
    \/ \E route \in Routes("adminAuth"), req \in GateRequests :
          Serve(route, req, adminAuth(req))
    \/ \E route \in Routes("JWTMiddleware"), req \in GateRequests :
          Serve(route, req, JWTMiddleware(req, "admin"))
    \/ \E route \in Routes("OptionalJWTMiddleware"), req \in GateRequests :
          Serve(route, req, OptionalJWTMiddleware(req))
    \/ \E route \in Routes("none"), req \in GateRequests :
          Serve(route, req, 0)

(***************************************************************************)
(* Agent: the daemon, its three loops and the shutdown signal.             *)
(***************************************************************************)
\* runDaemon: the goroutines as started: Reporter.Start sends the initial
\* heartbeat, Checker.Start sleeps ten seconds, Monitor.Start selects
LoopsStarted ==
    [heartbeat |-> [pc |-> "send", fate |-> "running"],
     checker |-> [pc |-> "sleep", fate |-> "running"],
     monitor |-> [pc |-> "select", fate |-> "running"]]

\* where a loop goes next from its position.  From select: a receipt from
\* ticker.C.  Elsewhere: the blocking call in progress returns, none of them
\* takes the context: client.Do, time.Sleep, exec.Command.
NextPositions(l, pc) ==
    CASE l = "heartbeat" -> IF pc = "select" THEN {"send"} ELSE {"select"}
      [] l = "checker" ->
           (CASE pc = "sleep" -> {"check"}
              [] pc = "select" -> {"check"}
              [] pc = "check" -> {"apply", "select"}
              [] pc = "apply" -> {"select"})
      [] l = "monitor" ->
           (CASE pc = "select" -> {"status"}
              [] pc = "status" -> {"health", "restart", "select"}
              [] pc = "health" -> {"restart", "select"}
              [] pc = "restart" -> {"wait", "select"}
              [] pc = "wait" -> {"select"})

\* select: the case <-ticker.C is taken (it may be, also when ctx.Done() is
\* ready: select chooses among the ready cases)
LoopTick(l) ==
    /\ daemon # "exited"
    /\ loops[l].fate = "running" /\ loops[l].pc = "select"
    /\ \E pc \in NextPositions(l, "select") : loops' = [loops EXCEPT ![l].pc = pc]
    /\ UNCHANGED <<probe, wall, window, chk, adminKey, gate, daemon>>
    /\ UNCHANGED <<licVars, agentVars, srvVars, monVars, opsVars>>

\* the blocking call of the loop returns
LoopReturn(l) ==
    /\ loops[l].fate = "running" /\ loops[l].pc # "select"
    /\ \E pc \in NextPositions(l, loops[l].pc) :
          loops' = [loops EXCEPT ![l].pc = pc]
    /\ UNCHANGED <<probe, wall, window, chk, adminKey, gate, daemon>>
    /\ UNCHANGED <<licVars, agentVars, srvVars, monVars, opsVars>>

\* select: the case <-ctx.Done() is taken, the loop returns
LoopObserve(l) ==
    /\ daemon = "cancelled"
    /\ loops[l].fate = "running" /\ loops[l].pc = "select"
    /\ loops' = [loops EXCEPT ![l].fate = "returned"]
    /\ UNCHANGED <<probe, wall, window, chk, adminKey, gate, daemon>>
    /\ UNCHANGED <<licVars, agentVars, srvVars, monVars, opsVars>>

\* runDaemon: a signal is received from sigChan, cancel() is called
Signal ==
    /\ daemon = "running"
    /\ daemon' = "cancelled"
    /\ UNCHANGED <<probe, wall, window, chk, adminKey, gate, loops>>
    /\ UNCHANGED <<licVars, agentVars, srvVars, monVars, opsVars>>

\* runDaemon: time.Sleep(2 s) is over and runDaemon returns; the process
\* exits and every goroutine still running ends where it is.  The loops
\* waiting in select have taken a case by then.
Exit ==
    /\ daemon = "cancelled"
    /\ \A l \in DOMAIN loops :
          loops[l].fate = "running" => loops[l].pc # "select"
    /\ daemon' = "exited"
    /\ loops' = [l \in DOMAIN loops |->
                   IF loops[l].fate = "running"
                   THEN [loops[l] EXCEPT !.fate = "killed"]
                   ELSE loops[l]]
    /\ UNCHANGED <<probe, wall, window, chk, adminKey, gate>>
    /\ UNCHANGED <<licVars, agentVars, srvVars, monVars, opsVars>>

NextDaemon ==
    \/ \E l \in DOMAIN loops : LoopTick(l)
    \/ \E l \in DOMAIN loops : LoopReturn(l)
    \/ \E l \in DOMAIN loops : LoopObserve(l)
    \/ Signal
    \/ Exit

\* no probe was answered, no checker runs, no guarded route was requested,
\* the daemon's loops take no step
SideAtRest ==
    /\ probe = NoProbe
    /\ wall = DayTimes[1]
    /\ window = {}
    /\ chk = [pc |-> "start", applied |-> {}]
    /\ adminKey = ""
    /\ gate = NoGate
    /\ daemon = "running"
    /\ loops = LoopsStarted

NextChecker ==
    \/ \E u \in BOOLEAN : CheckerStart(u)
    \/ \E u \in BOOLEAN : CheckerTick(u)
    \/ WallTick

(***************************************************************************)
(* Server: the direct download route.                                      *)
(***************************************************************************)
\* a Save has created the file at path k and has not written all of it yet
Writing(k) ==
    \E p \in Procs :
        /\ up[p].pc = "write"
        /\ GetPath(up[p].req.product, up[p].req.version, up[p].req.filename) = k

\* handleDirectDownload: 404 unless storage.Exists, then storage.Get, the
\* X-Checksum-SHA256 header from the release row of (product, version) if
\* there is one, then io.Copy of the file to the response
DirectDownload(product, version, filename) ==
    /\ served < MaxRequests
    /\ served' = served + 1
    /\ LET k == GetPath(product, version, filename)
           release == {r \in releases :
                          r.product_name = product /\ r.version = version}
       IN  dl' = IF store[k] = Absent
                 THEN [key |-> k, status |-> 404, body |-> <<>>,
                       checksum |-> {}, settled |-> ~Writing(k)]
                 ELSE [key |-> k, status |-> 200, body |-> store[k],
                       checksum |-> {r.checksum : r \in release},
                       settled |-> ~Writing(k)]
    /\ UNCHANGED <<store, releases, up, hb>>
    /\ UNCHANGED <<account, rb, boot, access, cyc, sess>>
    /\ UNCHANGED <<licVars, agentVars, monVars, sideVars>>

(***************************************************************************)
(* Agent: the Monitor's maps under the monitoring loop and GetStatus.      *)
(***************************************************************************)
\* a goroutine begins a statement on m.restartCount: the loop goroutine a
\* read (restartService) or a write (checkAllServices, restartService), a
\* caller of GetStatus a read.  The Monitor struct has no lock, so nothing
\* waits; a read that overlaps a write is a data race.
MapAccess(who, kind) ==
    /\ access.seen # -1
    /\ access[who] = "none"
    /\ who = "status" => kind = "read"
    /\ LET other == IF who = "loop" THEN "status" ELSE "loop"
       IN  access' = [access EXCEPT
                         ![who] = kind,
                         !.raced = IF who = "status"
                                   THEN access.loop = "write"
                                   ELSE @ \/ (kind = "write"
                                                 /\ access[other] = "read")]
    /\ UNCHANGED <<dl, account, rb, boot, cyc, sess>>
    /\ UNCHANGED <<licVars, agentVars, srvVars, monVars, sideVars>>

\* the statement completes: a write of the loop stores 0 (service active)
\* or the count plus one (restarted); a read of GetStatus yields the count,
\* or after a race any count or the runtime's fatal error "concurrent map
\* read and map write" (-1), which ends the process
MapAccessEnd(who, reset) ==
    /\ access.seen # -1
    /\ access[who] # "none"
    /\ restartCount' = IF who = "loop" /\ access.loop = "write"
                       THEN (IF reset \/ restartCount >= MaxRestarts THEN 0
                             ELSE restartCount + 1)
                       ELSE restartCount
    /\ \E seen \in IF who = "loop" THEN {access.seen}
                   ELSE IF access.raced THEN -1..MaxRestarts
                   ELSE {restartCount} :
          access' = [access EXCEPT ![who] = "none", !.seen = seen]
    /\ UNCHANGED <<mtime, unit, hasHealth, lastRestart, attemptTimes>>
    /\ UNCHANGED <<dl, account, rb, boot, cyc, sess>>
    /\ UNCHANGED <<licVars, agentVars, srvVars, sideVars>>

(***************************************************************************)
(* Server: the login of a user.  Time is counted in units of 15 minutes. *)
(***************************************************************************)
\* the lock of IncrementFailedAttempts, INTERVAL '15 minutes'
LockDuration == 1
\* the failed attempts the model lets one user make
MaxAttempts == 6
\* the rows of table users
Users == {"u1", "u2"}

\* Repository.IncrementFailedAttempts: one UPDATE whose CASE reads the
\* counter before the increment; locked_until NULL is -1
IncrementFailedAttempts(user, t) ==
    [user EXCEPT !.failed_login_attempts = @ + 1,
                 !.locked_until = IF user.failed_login_attempts >= 4
                                  THEN t + LockDuration ELSE @]

\* Service.Login of an active user: ErrAccountLocked while locked_until is
\* after time.Now(); on a wrong password IncrementFailedAttempts and
\* ErrInvalidCredentials; else Repository.ResetFailedAttempts (counter 0,
\* locked_until NULL) and the tokens.  streak counts the failed attempts
\* since the last successful login or the last expiry of a lock.
Login(u, correct) ==
    /\ account[u].failed_login_attempts < MaxAttempts
    /\ LET user == account[u]
           streak == IF user.locked_until # -1 THEN 0 ELSE user.streak
       IN  account' = [account EXCEPT ![u] =
             IF user.locked_until # -1 /\ user.locked_until > now
             THEN [user EXCEPT !.answer = "account locked"]
             ELSE IF ~correct
             THEN [IncrementFailedAttempts(user, now) EXCEPT
                      !.answer = "invalid credentials",
                      !.streak = streak + 1]
             ELSE [user EXCEPT !.failed_login_attempts = 0,
                               !.locked_until = -1,
                               !.answer = "tokens", !.streak = 0]]
    /\ UNCHANGED <<dl, rb, boot, access, cyc, sess>>
    /\ UNCHANGED <<licVars, agentVars, srvVars, monVars, sideVars>>

(***************************************************************************)
(* Server: the refresh tokens.  A refresh token is the number of its       *)
(* random draw; table sessions holds its hash, with revoked_at (NULL is    *)
(* -1).  No session expires within the runs considered (7 days).           *)
(***************************************************************************)
\* the refresh tokens the model lets the server generate
MaxTokens == 3
\* the calls of RefreshTokens the model lets one client make
MaxRefreshes == 2

\* hashToken: hex of sha256
hashToken(token) == <<"sha256", token>>

\* Repository.CreateSession: the INSERT of a session for a fresh refresh
\* token; the id of the row is drawn with the token
CreateSession(token) ==
    [id |-> token, refresh_token_hash |-> hashToken(token), revoked_at |-> -1]

\* Service.generateAuthTokens at the end of a successful login
generateAuthTokens ==
    /\ sess.minted < MaxTokens
    /\ sess' = [sess EXCEPT !.minted = @ + 1,
                            !.rows = @ \cup {CreateSession(sess.minted + 1)}]
    /\ UNCHANGED <<dl, account, rb, boot, access, cyc>>
    /\ UNCHANGED <<licVars, agentVars, srvVars, monVars, sideVars>>

\* Repository.GetSessionByToken: the row of that hash, unless revoked
GetSessionByToken(hash) ==
    {r \in sess.rows : r.refresh_token_hash = hash /\ r.revoked_at = -1}

\* Service.RefreshTokens up to the session it found: ErrSessionNotFound or
\* ErrSessionExpired is returned at once
RefreshLookup(p, token) ==
    /\ sess.call[p].pc = "idle"
    /\ sess.call[p].n < MaxRefreshes
    /\ token \in 1..sess.minted
    /\ LET found == GetSessionByToken(hashToken(token))
           n == sess.call[p].n + 1
       IN  sess' = IF found = {}
                   THEN [sess EXCEPT
                           !.call[p].n = n,
                           !.answers = @ \cup {[by |-> p, n |-> n,
                                                token |-> token,
                                                issued |-> 0]}]
                   ELSE [sess EXCEPT
                           !.call[p] = [pc |-> "revoke", token |-> token,
                                        session |-> (CHOOSE r \in found : TRUE).id,
                                        n |-> n]]
    /\ UNCHANGED <<dl, account, rb, boot, access, cyc>>
    /\ UNCHANGED <<licVars, agentVars, srvVars, monVars, sideVars>>

\* Repository.RevokeSession: UPDATE sessions SET revoked_at = NOW() WHERE id
RevokeSession(rows, id, t) ==
    {IF r.id = id THEN [r EXCEPT !.revoked_at = t] ELSE r : r \in rows}

\* Service.RefreshTokens after GetUserByID: the old session is revoked; a
\* disabled account is refused
RefreshRevoke(p, isActive) ==
    /\ sess.call[p].pc = "revoke"
    /\ LET c == sess.call[p]
           rows == RevokeSession(sess.rows, c.session, now)
       IN  sess' = IF isActive
                   THEN [sess EXCEPT !.rows = rows, !.call[p].pc = "create"]
                   ELSE [sess EXCEPT
                           !.rows = rows,
                           !.call[p].pc = "idle",
                           !.answers = @ \cup {[by |-> p, n |-> c.n,
                                                token |-> c.token,
                                                issued |-> 0]}]
    /\ UNCHANGED <<dl, account, rb, boot, access, cyc>>
    /\ UNCHANGED <<licVars, agentVars, srvVars, monVars, sideVars>>

\* Service.RefreshTokens to its end: generateRefreshToken, CreateSession,
\* and the new tokens are returned
RefreshCreate(p) ==
    /\ sess.call[p].pc = "create"
    /\ sess.minted < MaxTokens + NumProcs * MaxRefreshes
    /\ LET c == sess.call[p]
           newRefreshToken == sess.minted + 1
       IN  sess' = [sess EXCEPT
                      !.minted = newRefreshToken,
                      !.rows = @ \cup {CreateSession(newRefreshToken)},
                      !.call[p].pc = "idle",
                      !.answers = @ \cup {[by |-> p, n |-> c.n,
                                           token |-> c.token,
                                           issued |-> newRefreshToken]}]
    /\ UNCHANGED <<dl, account, rb, boot, access, cyc>>
    /\ UNCHANGED <<licVars, agentVars, srvVars, monVars, sideVars>>

(***************************************************************************)
(* Agent: the rollback command.  A version is the sequence of its          *)
(* dot-separated segments, each a digit; the backup directory is a set of  *)
(* files named <product>.<version>.bak or <product>.<version>.current.bak, *)
(* each with the image (the release) it is a copy of.                      *)
(***************************************************************************)
\* the releases installed on the host: "1.5", "1.9" and "2.0"
Installable == {<<1, 5>>, <<1, 9>>, <<2, 0>>}
\* the applies and rollbacks run on the host
MaxCommands == 4

\* runRollback, the loop over os.ReadDir(backupDir): parts[1] of
\* strings.Split(name, ".") is compared, and a later entry replaces the
\* choice only if its parts[1] is greater; ReadDir lists by file name, where
\* a digit sorts before "bak" and "bak" before "current"
latestBackup(dir) ==
    LET nameKey(f) == f.version[1] * 100
                      + (IF Len(f.version) > 1 THEN f.version[2] ELSE 10) * 2
                      + (IF f.current THEN 1 ELSE 0)
    IN  {f \in dir :
            \A g \in dir :
                \/ g.version[1] < f.version[1]
                \/ g.version[1] = f.version[1] /\ nameKey(f) <= nameKey(g)}

\* the directory after cp of image to the file named by (version, current)
BackupFile(dir, version, current, image) ==
    {f \in dir : ~(f.version = version /\ f.current = current)}
    \cup {[version |-> version, current |-> current, image |-> image]}

\* Updater.ApplyUpdate of release v, as far as the rollback sees it: the
\* binary is copied to <product>.<currentVersion>.bak, v is installed and
\* written to the version file
ApplyBackup(v) ==
    /\ rb.runs < MaxCommands
    /\ v # rb.version
    /\ rb' = [dir |-> BackupFile(rb.dir, rb.version, FALSE, rb.binary),
              binary |-> v, version |-> v, ret |-> "applied",
              runs |-> rb.runs + 1]
    /\ UNCHANGED <<dl, account, boot, access, cyc, sess>>
    /\ UNCHANGED <<licVars, agentVars, srvVars, monVars, sideVars>>

\* runRollback: no backup is an error; else the current binary is copied to
\* <product>.<currentVersion>.current.bak, the chosen backup is copied over
\* the binary (a failure is returned), parts[1] of its name is written to
\* the version file (a failure is only a warning) and the service started
runRollback(cpOk, writeOk, startOk) ==
    /\ rb.runs < MaxCommands
    /\ IF latestBackup(rb.dir) = {}
       THEN rb' = [rb EXCEPT !.ret = "no backup found", !.runs = @ + 1]
       ELSE \E f \in latestBackup(rb.dir) :
               rb' = [dir |-> BackupFile(rb.dir, rb.version, TRUE, rb.binary),
                      binary |-> IF cpOk THEN f.image ELSE rb.binary,
                      version |-> IF cpOk /\ writeOk THEN <<f.version[1]>>
                                  ELSE rb.version,
                      ret |-> IF ~cpOk THEN "failed to restore backup"
                              ELSE IF ~startOk THEN "failed to start service"
                              ELSE "rolled back",
                      runs |-> rb.runs + 1]
    /\ UNCHANGED <<dl, account, boot, access, cyc, sess>>
    /\ UNCHANGED <<licVars, agentVars, srvVars, monVars, sideVars>>

(***************************************************************************)
(* Agent: the init command.                                                *)
(***************************************************************************)
\* the steps of runInit in program order, for a license of two products
InitSteps ==
    <<"root", "activate", "directories", "user", "download P", "download Q",
      "config", "credentials", "services", "updater service", "permissions",
      "start">>

\* runInit, one step: the root check, activateLicense, createDirectories,
\* cfg.Save and the write of the credentials return their error; the error
\* of createSystemUser, downloadProduct and of the steps after the
\* credentials is printed as a warning and the next step is taken.  exit is
\* -1 while the command runs, then 0 (nil returned) or 1 (an error).
runInit(ok) ==
    /\ boot.exit = -1
    /\ LET step == InitSteps[boot.pc]
           failed == IF ok THEN boot.failed ELSE boot.failed \cup {step}
       IN  boot' =
             IF ~ok /\ step \in {"root", "activate", "directories", "config",
                                 "credentials"}
             THEN [boot EXCEPT !.failed = failed, !.exit = 1]
             ELSE [pc |-> boot.pc + 1, failed |-> failed,
                   config |-> boot.config \/ (ok /\ step = "config"),
                   exit |-> IF boot.pc = Len(InitSteps) THEN 0 ELSE -1]
    /\ UNCHANGED <<dl, account, rb, access, cyc, sess>>
    /\ UNCHANGED <<licVars, agentVars, srvVars, monVars, sideVars>>

(***************************************************************************)
(* Agent: errors in the reporter's and the checker's cycles.               *)
(***************************************************************************)
\* config.Products of the agent, in order
AgentProducts == <<"P", "Q">>
\* the heartbeat ticks and the update cycles the model lets the daemon run
MaxBeats == 3
MaxCycles == 2

\* mutant of nextProduct: an error returns from checkAllUpdates
nextProductReturning(i, failed) ==
    IF failed \/ i = Len(AgentProducts) THEN 0 ELSE i + 1

\* checkAllUpdates, the range loop: after product i, whether its check or
\* its apply failed or not, comes product i + 1; after the last the
\* function returns to the select of Checker.Start (position 0)
nextProduct(i, failed) == IF i = Len(AgentProducts) THEN 0 ELSE i + 1

\* Reporter.Start at a tick: sendHeartbeat collects a heartbeat and posts
\* it; a failure is printed and the heartbeat is gone, nothing is kept for
\* the next tick
sendHeartbeat(ok) ==
    /\ cyc.beats < MaxBeats
    /\ cyc' = [cyc EXCEPT !.beats = @ + 1, !.collected = cyc.beats + 1,
                          !.lost = IF ok THEN @ ELSE @ + 1]
    /\ UNCHANGED <<dl, account, rb, boot, access, sess>>
    /\ UNCHANGED <<licVars, agentVars, srvVars, monVars, sideVars>>

\* Checker.Start at a tick enters checkAllUpdates, which takes the products
\* in order: CheckUpdate, and if it reports an update, ApplyUpdate; the
\* error of either is printed
checkProduct(checkOk, hasUpdate, applyOk) ==
    /\ cyc.cycles < MaxCycles
    /\ LET i == IF cyc.at = 0 THEN 1 ELSE cyc.at
           failed == ~checkOk \/ (hasUpdate /\ ~applyOk)
           next == nextProduct(i, failed)
       IN  cyc' = [cyc EXCEPT
                      !.at = next,
                      !.checked = (IF cyc.at = 0 THEN {} ELSE @)
                                  \cup {AgentProducts[i]},
                      !.errors = IF failed THEN @ \cup {AgentProducts[i]}
                                 ELSE @,
                      !.cycles = IF next = 0 THEN @ + 1 ELSE @]
    /\ UNCHANGED <<dl, account, rb, boot, access, sess>>
    /\ UNCHANGED <<licVars, agentVars, srvVars, monVars, sideVars>>

(***************************************************************************)
(* Agent: the Monitor next to an ApplyUpdate in the same daemon.           *)
(***************************************************************************)
\* Monitor.checkAllServices at a tick that finds the service of the product
\* inactive: restartService, whose systemctl restart starts the binary at
\* the target path.  runDaemon starts the Monitor and the Checker as two
\* goroutines that share no lock and no state, so the tick can come at any
\* position of an ApplyUpdate.
restartService ==
    /\ mtime <= MaxTicks * TickerPeriod
    /\ ~svc.running
    /\ MayRestart(mtime)
    /\ mtime' = mtime + TickerPeriod
    /\ IF Startable(target)
       THEN /\ svc' = [running |-> TRUE, image |-> target]
            /\ restartCount' = restartCount + 1
            /\ lastRestart' = {mtime}
       ELSE UNCHANGED <<svc, restartCount, lastRestart>>
    /\ UNCHANGED <<unit, hasHealth, attemptTimes>>
    /\ UNCHANGED <<target, temp, backups, versionFile, badVersions, ap, applies>>
    /\ UNCHANGED <<licVars, srvVars, sideVars, opsVars>>

(***************************************************************************)
(* Agent: the Monitor's tick with the status as getServiceStatus reads it. *)
(***************************************************************************)
\* Monitor.getServiceStatus: the trimmed output of systemctl is-active,
\* or "unknown" when cmd.Output() returns an error.  systemctl is-active
\* exits 0 only for an active unit (3 for an inactive or failed one), and
\* Output returns an *ExitError for every non-zero exit.
getServiceStatus(u) == IF u = "active" THEN u ELSE "unknown"

\* Monitor.checkAllServices at a tick: the switch on the status has the
\* cases "active" and "failed", "inactive"; any other status does nothing
checkAllServices(healthy, cmdOk, d) ==
    IF getServiceStatus(unit) \in {"active", "failed", "inactive"}
    THEN CheckService(healthy, cmdOk, d)
    ELSE /\ mtime <= MaxTicks * TickerPeriod
         /\ mtime' = mtime + TickerPeriod
         /\ UNCHANGED <<unit, hasHealth, restartCount, lastRestart,
                        attemptTimes>>
         /\ UNCHANGED <<licVars, agentVars, srvVars, sideVars, opsVars>>

(***************************************************************************)
(* The download route, the login and the agent's commands at rest.         *)
(***************************************************************************)
OpsAtRest ==
    /\ dl = [key |-> <<>>, status |-> 0, body |-> <<>>, checksum |-> {},
             settled |-> TRUE]
    /\ account = [u \in Users |->
                     [failed_login_attempts |-> 0, locked_until |-> -1,
                      answer |-> "", streak |-> 0]]
    /\ rb = [dir |-> {}, binary |-> <<1, 5>>, version |-> <<1, 5>>,
             ret |-> "", runs |-> 0]
    /\ boot = [pc |-> 1, failed |-> {}, config |-> FALSE, exit |-> -1]
    /\ access = [loop |-> "none", status |-> "none", raced |-> FALSE, seen |-> 0]
    /\ cyc = [beats |-> 0, collected |-> 0, lost |-> 0, at |-> 0,
              checked |-> {}, errors |-> {}, cycles |-> 0]
    /\ sess = [rows |-> {}, minted |-> 0, answers |-> {},
               call |-> [p \in Procs |-> [pc |-> "idle", token |-> 0,
                                          session |-> 0, n |-> 0]]]

(***************************************************************************)
(* Specifications: one per subsystem, the others at rest.                  *)
(***************************************************************************)
\* no request in flight, no license issued, the agent and monitor at rest
InitActivation == InitLicensing /\ AgentAtRest /\ InitServer /\ MonitorAtRest /\ SideAtRest /\ OpsAtRest

\* the licensing service under concurrent activation requests
SpecActivation == InitActivation /\ [][NextActivation]_vars

\* the licensing service under activations and administration
SpecLicensing == InitActivation /\ [][NextLicensing]_vars

\* a host whose daemon starts the update checker at any time of day, with
\* any window ("HH:MM" strings, here as parsed) or none configured
InitGate ==
    /\ wall \in {DayTimes[i] : i \in DOMAIN DayTimes}
    /\ window \in {{}} \cup {{[start |-> DayTimes[i], end |-> DayTimes[j]]} :
                                i, j \in DOMAIN DayTimes}
    /\ chk = [pc |-> "start", applied |-> {}]
    /\ probe = NoProbe /\ adminKey = "" /\ gate = NoGate
    /\ daemon = "running" /\ loops = LoopsStarted
    /\ InitLicensing /\ AgentAtRest /\ InitServer /\ MonitorAtRest
    /\ OpsAtRest

\* the update checker against the wall clock
SpecChecker == InitGate /\ [][NextChecker]_vars

\* a server started with or without an admin key configured
InitGuards ==
    /\ adminKey \in {"", "adm"}
    /\ gate = NoGate
    /\ probe = NoProbe /\ wall = DayTimes[1] /\ window = {}
    /\ chk = [pc |-> "start", applied |-> {}]
    /\ daemon = "running" /\ loops = LoopsStarted
    /\ InitLicensing /\ AgentAtRest /\ InitServer /\ MonitorAtRest
    /\ OpsAtRest

\* the server's guarded routes under any request
SpecGuards == InitGuards /\ [][NextGate]_vars

\* a host whose daemon has started its three loops
InitDaemon ==
    /\ daemon = "running" /\ loops = LoopsStarted
    /\ probe = NoProbe /\ adminKey = "" /\ gate = NoGate
    /\ wall = DayTimes[1] /\ window = {}
    /\ chk = [pc |-> "start", applied |-> {}]
    /\ InitLicensing /\ AgentAtRest /\ InitServer /\ MonitorAtRest
    /\ OpsAtRest

\* the daemon and its loops: a blocking call returns in the end, a loop in
\* select takes the ready Done case in the end, runDaemon's sleep ends
SpecDaemon ==
    InitDaemon /\ [][NextDaemon]_vars
        /\ \A l \in {"heartbeat", "checker", "monitor"} :
              WF_vars(LoopReturn(l)) /\ SF_vars(LoopObserve(l))
        /\ WF_vars(Exit)

\* the monitoring loop and a caller of GetStatus on the same Monitor
SpecStatus ==
    InitActivation
    /\ [][\/ \E who \in {"loop", "status"}, kind \in {"read", "write"} :
                MapAccess(who, kind)
          \/ \E who \in {"loop", "status"}, reset \in BOOLEAN :
                MapAccessEnd(who, reset)]_vars

\* users log in, with the right password or a wrong one, as time passes
SpecLogin ==
    InitActivation
    /\ [][\/ ServerTick
          \/ \E u \in Users, correct \in BOOLEAN : Login(u, correct)]_vars

\* users log in and clients exchange refresh tokens, concurrently
SpecRefresh ==
    InitActivation
    /\ [][\/ generateAuthTokens
          \/ \E p \in Procs, token \in 1..MaxTokens : RefreshLookup(p, token)
          \/ \E p \in Procs, isActive \in BOOLEAN : RefreshRevoke(p, isActive)
          \/ \E p \in Procs : RefreshCreate(p)]_vars

\* a host at release 1.5 on which updates are applied and rolled back
SpecRollback ==
    InitActivation
    /\ [][\/ \E v \in Installable : ApplyBackup(v)
          \/ \E cpOk, writeOk, startOk \in BOOLEAN :
                runRollback(cpOk, writeOk, startOk)]_vars

\* the init command run once, any of its steps failing
SpecInit == InitActivation /\ [][\E ok \in BOOLEAN : runInit(ok)]_vars

\* the daemon's reporter and checker, any request of theirs failing
SpecCycles ==
    InitActivation
    /\ [][\/ \E ok \in BOOLEAN : sendHeartbeat(ok)
          \/ \E checkOk, hasUpdate, applyOk \in BOOLEAN :
                checkProduct(checkOk, hasUpdate, applyOk)]_vars

\* a bootstrapped host about to apply updates
InitApply == InitAgent /\ InitLicensing /\ InitServer /\ MonitorAtRest /\ SideAtRest /\ OpsAtRest

\* the agent applying updates on one host
SpecApply == InitApply /\ [][NextApply]_vars

\* the agent applying updates while its monitor watches the service
SpecSupervised == InitApply /\ [][NextApply \/ restartService]_vars

\* a server with one activated instance and an empty catalog
InitCatalog == InitServer /\ InitActivated /\ AgentAtRest /\ MonitorAtRest /\ SideAtRest /\ OpsAtRest

\* the license probe on a server with one license and one instance
SpecProbe == InitCatalog /\ [][NextProbe]_vars

\* two licenses of the same type are issued and activated by hosts that
\* name themselves
SpecTwoLicenses ==
    InitActivation
    /\ [][\/ \E k \in {"K1", "K2"}, e \in ExpiryTimes :
                CreateLicense(k, <<"S", "c">>, e)
          \/ \E p \in Procs, k \in {"K1", "K2"}, h \in Hostnames \ {<<>>},
                m \in MachineIDs :
                ActStart(p, [license_key |-> k, hostname |-> h,
                             machine_id |-> m])
          \/ \E p \in Procs, rnd \in RandSuffixes : ActGetLicense(p, rnd)
          \/ \E p \in Procs : ActLookup(p)
          \/ \E p \in Procs : ActUpdate(p)
          \/ \E p \in Procs : ActCreate(p)
          \/ \E p \in Procs : ActBind(p)]_vars

\* the server under release uploads and binary uploads
SpecRelease == InitCatalog /\ [][NextRelease]_vars

\* artifacts are uploaded and downloaded concurrently
SpecDownload ==
    InitCatalog
    /\ [][\/ NextRelease
          \/ \E pr \in Products, v \in Versions, f \in Filenames :
                DirectDownload(pr, v, f)]_vars

\* the server answering a heartbeat while releases are uploaded
SpecOffer == InitCatalog /\ [][NextOffer]_vars

\* the server under concurrent heartbeats
SpecHeartbeat == InitCatalog /\ [][NextHeartbeat]_vars

\* the server's processes: main starts the HTTP listener and nothing else, so
\* the steps are those of its request handlers, each of which runs to its
\* end, while the wall clock advances
SpecServerLive ==
    InitCatalog /\ [][NextHeartbeat]_vars
        /\ WF_vars(ServerTick)
        /\ \A p \in Procs : WF_vars(HbNow(p) \/ HbExec(p) \/ HbRespond(p))

\* a host whose monitored service has crashed
InitCrashed == InitMonitor /\ InitLicensing /\ AgentAtRest /\ InitServer /\ SideAtRest /\ OpsAtRest

\* the monitor on a host whose service keeps crashing
SpecMonitor == InitCrashed /\ [][NextMonitor]_vars

\* the monitor starts with empty maps on a service in any state, with a
\* health endpoint configured or not
InitSupervisor ==
    /\ InitLicensing /\ AgentAtRest /\ InitServer /\ SideAtRest /\ OpsAtRest
    /\ mtime = TickerPeriod
    /\ unit \in {"active", "failed", "inactive"}
    /\ hasHealth \in BOOLEAN
    /\ restartCount = 0 /\ lastRestart = {} /\ attemptTimes = <<>>

\* the monitor from its start, on a service that may crash at any time
SpecSupervisor ==
    InitSupervisor
    /\ [][\/ \E healthy \in BOOLEAN, cmdOk \in BOOLEAN, d \in {0, 1} :
                checkAllServices(healthy, cmdOk, d)
          \/ \E st \in {"failed", "inactive"} : Crash(st)]_vars

(***************************************************************************)
(* Properties of the licensing service.                                    *)
(***************************************************************************)
Done(p) == act[p].pc = "done"

\* the response flow p returned
Res(p) == CHOOSE r \in act[p].res : TRUE

Succeeded(p) == Done(p) /\ Res(p).success

\* the license row as flow p read it
LicRead(p) == CHOOSE l \in act[p].lic : TRUE

\* flow q was started after flow p had returned
Sequential(p, q) == p \in act[q].after

\* p then q activate the same license with the same hostname and machine id,
\* both successfully
ActivatedTwice(p, q) ==
    /\ p # q /\ Succeeded(p) /\ Succeeded(q) /\ Sequential(p, q)
    /\ act[p].req = act[q].req

IdempotentPair(p, q) ==
    /\ Res(p).name = Res(q).name
    /\ Cardinality(GetByInstanceID(Res(q).name)) = 1
    /\ \A r \in instances : r.api_key_hash # HashAPIKey(Res(p).api_key)
    /\ (\A o \in Procs \ {p, q} : ~act[o].wrote) =>
          \A r \in GetByInstanceID(Res(q).name) :
              r.api_key_hash = HashAPIKey(Res(q).api_key)

\* C1 as stated: for any hostname, two successive activations of one license
\* with the same hostname and machine id return the same instance_id, leave
\* exactly one row for it, and the first key's hash is no longer stored.
C1_IdempotentAnyHostname ==
    \A p, q \in Procs : ActivatedTwice(p, q) => IdempotentPair(p, q)

\* C1 amended: the same, for a non-empty hostname (an empty hostname gets a
\* random suffix on every activation).
C1_IdempotentWithHostname ==
    \A p, q \in Procs :
        (ActivatedTwice(p, q) /\ act[p].req.hostname # <<>>)
            => IdempotentPair(p, q)

C1_Witness ==
    \E p, q \in Procs :
        /\ ActivatedTwice(p, q) /\ act[p].req.hostname # <<>>
        /\ act[q].wrote

BoundError == "license is bound to a different machine"

\* p activated an unbound license successfully, q was started afterwards for
\* the same license from another machine and has returned
RebindAttempt(p, q) ==
    /\ p # q /\ Succeeded(p) /\ LicRead(p).bound_to = ""
    /\ Sequential(p, q) /\ Done(q)
    /\ act[q].req.license_key = act[p].req.license_key
    /\ act[q].req.machine_id # act[p].req.machine_id

FoundBoundTo(p, q) ==
    /\ act[p].req.machine_id # ""
    /\ act[q].lic # {}
    /\ LicRead(q).bound_to = act[p].req.machine_id

ConcurrentSameInstance(p, q) ==
    /\ p # q /\ Done(p) /\ Done(q)
    /\ ~Sequential(p, q) /\ ~Sequential(q, p)
    /\ act[p].instanceID # <<>>
    /\ act[p].req.hostname # <<>> /\ act[q].req.hostname # <<>>
    /\ act[p].instanceID = act[q].instanceID

\* C3: two concurrent activations deriving the same instance_id both return
\* success, exactly one row exists, it holds the key of one of them, and both
\* responses name that row.
C3_ConcurrentActivationConsistent ==
    \A p, q \in Procs :
        ConcurrentSameInstance(p, q) =>
            /\ Res(p).success /\ Res(q).success
            /\ Cardinality(GetByInstanceID(act[p].instanceID)) = 1
            /\ \A r \in GetByInstanceID(act[p].instanceID) :
                  /\ r.id = Res(p).id /\ r.id = Res(q).id
                  /\ (\A o \in Procs \ {p, q} : ~act[o].wrote) =>
                        r.api_key_hash \in {HashAPIKey(Res(p).api_key),
                                            HashAPIKey(Res(q).api_key)}

\* at most one non-empty machine id has activated a license successfully
OneMachinePerLicense ==
    \A p, q \in Procs :
        (/\ Succeeded(p) /\ Succeeded(q)
         /\ act[p].req.license_key = act[q].req.license_key
         /\ act[p].req.machine_id # "" /\ act[q].req.machine_id # "")
            => act[p].req.machine_id = act[q].req.machine_id

\* a non-empty bound_to is never changed by a step
BoundToLatched ==
    \A l \in licenses :
        l.bound_to # "" =>
            \A m \in licenses' : m.id = l.id => m.bound_to = l.bound_to

\* C4: binding is a one-way latch: at most one machine id ever activates a
\* license successfully and bound_to never changes once non-empty.
C4_BindingLatch == []OneMachinePerLicense /\ [][BoundToLatched]_vars

(***************************************************************************)
(* Properties of the update apply.                                         *)
(***************************************************************************)
\* C5: during an apply whose download was complete, the target path holds
\* either the old binary or the complete new binary at every instant, never
\* an empty or partly written file.
C5_AtomicSwap ==
    (ap.pc # "idle" /\ ~ap.truncated)
        => (target = ap.prior \/ target = Binary(ap.latest))

\* C6: if the service start failed after the swap (of a completely downloaded
\* binary over a running prior version), then when ApplyUpdate has returned
\* the target is the prior binary and the service runs on it.
C6_RollbackRecovers ==
    (/\ ap.pc = "idle" /\ ap.ret = "error" /\ ap.startFailed
     /\ ~ap.truncated /\ IsBinary(ap.prior) /\ ap.priorRunning)
        => /\ target = ap.prior
           /\ svc.running /\ svc.image = ap.prior

(***************************************************************************)
(* Properties of the release catalog and the artifact store.               *)
(***************************************************************************)
\* the artifact a release row points to, as read from the store
ArtifactOf(r) == store[GetPath(r.product_name, r.version, r.artifact)]

\* no upload is being handled and none has ended in a failed write
StoreSettled ==
    \A p \in Procs : UpFree(p) /\ up[p].error # "failed to save"

\* C7: whenever no upload is in flight (and no write to the store failed),
\* the artifact of every release row exists in the store and its SHA-256
\* equals the row's checksum.
C7_ChecksumIntegrity ==
    StoreSettled =>
        \A r \in releases :
            /\ ArtifactOf(r) # Absent
            /\ Sha256(ArtifactOf(r)) = r.checksum

LatestOn(product, channel) ==
    {r \in releases :
        /\ r.product_name = product /\ r.channel = channel
        /\ ~\E q \in releases :
              /\ q.product_name = product /\ q.channel = channel
              /\ q.released_at > r.released_at}

\* the updates list has an entry for the report h
Offers(updates, h) ==
    \E i \in 1..Len(updates) :
        /\ updates[i].product = h.name
        /\ updates[i].current_version = h.version
        /\ updates[i].channel = h.channel

\* the answer flow p gives in this step is right for each of its reports
OfferCorrect(p) ==
    \A k \in 1..Len(hb[p].req.products) :
        LET h == hb[p].req.products[k]
            latest == LatestOn(h.name, h.channel)
        IN  IF Offers(hb'[p].updates, h)
            THEN \E r \in latest : r.version # h.version
            ELSE latest = {} \/ \E r \in latest : r.version = h.version

C10_HeartbeatVisible ==
    \A p \in Procs :
        hb[p].pc \in {"respond", "done"} /\ hb[p].status # 400 =>
            \A r \in instances :
                r.instance_id = hb[p].req.instance_id =>
                    /\ r.last_heartbeat >= hb[p].received
                    /\ r.status = "online"

\* C18: when two heartbeats for the same instance have both written, the
\* row's last_heartbeat is the newer of the two timestamps, whatever the
\* order in which the writes reached the database.
C18_NewerHeartbeatWins ==
    \A p, q \in Procs :
        (/\ p # q
         /\ hb[p].pc \in {"respond", "done"} /\ hb[p].status # 400
         /\ hb[q].pc \in {"respond", "done"} /\ hb[q].status # 400
         /\ hb[p].req.instance_id = hb[q].req.instance_id) =>
            \A r \in instances :
                r.instance_id = hb[p].req.instance_id =>
                    r.last_heartbeat =
                        IF hb[p].at >= hb[q].at THEN hb[p].at ELSE hb[q].at

\* the known instance is online with a heartbeat older than the threshold
StaleOnline ==
    \E r \in instances :
        /\ r.instance_id = KnownInstance.instance_id
        /\ r \notin UpdateOfflineInstances(instances, OfflineThreshold)

KnownOffline ==
    \E r \in instances :
        r.instance_id = KnownInstance.instance_id /\ r.status = "offline"

\* C11: the server sweeps in the background, so an online instance whose
\* last heartbeat is older than the threshold eventually becomes offline
\* without any external trigger.
C11_SweepRuns == StaleOnline ~> KnownOffline

\* C15: if the SHA-256 of the downloaded bytes differs from the catalog
\* checksum of the release, the apply is aborted: the target binary stays as
\* it was and, once ApplyUpdate has returned, it returned an error and the
\* temp file is gone.
C15_ChecksumMismatchAborts ==
    (ap.truncated /\ Sha256(Binary(ap.latest)) # Sha256(CutShort(Binary(ap.latest))))
        => /\ target = ap.prior
           /\ ap.pc = "idle" => (ap.ret = "error" /\ temp = Absent)

\* C20: an upload of a release whose (product, version) is already in the
\* catalog when the INSERT is tried is answered with HTTP 409.
C20_DuplicateIsConflict ==
    [][\A p \in Procs :
          (/\ up[p].pc = "cleanup"
           /\ \E r \in releases : /\ r.product_name = up[p].req.product
                                  /\ r.version = up[p].req.version
           /\ up'[p].pc # "cleanup")
              => up'[p].status = 409]_vars

(***************************************************************************)
(* Properties of license usability.                                        *)
(***************************************************************************)
\* the license is usable by the machine at time t, the expiry instant
\* excluded
Usable(l, machine, t) ==
    l.is_active /\ t < l.expires_at /\ (l.bound_to = "" \/ l.bound_to = machine)

\* the same, the expiry instant included
UsableThrough(l, machine, t) ==
    l.is_active /\ t <= l.expires_at /\ (l.bound_to = "" \/ l.bound_to = machine)

\* flow p answers in this step, and answers success exactly when it got past
\* ActivateLicense's refusals, any other answer past them being a storage
\* error
AnswersAsDecided(p) ==
    (act[p].pc # "done" /\ act'[p].pc = "done") =>
        LET r == CHOOSE x \in act'[p].res : TRUE
        IN  /\ r.success <=> act[p].pc = "bind"
            /\ act[p].pc = "idle" => GetByKey(act'[p].req.license_key) = {}
            /\ (~r.success /\ act[p].pc \notin {"idle", "get"}) => r.status = 500

\* flow p reads the license in this step
ReadsLicense(p) == act[p].pc = "get" /\ act'[p].pc # "get"

C13_ValidIffUsable ==
    [][probe' # probe =>
          /\ licenses' = licenses
          /\ probe'.valid <=>
                \E l \in GetByKey(probe'.key) :
                    Usable(l, probe'.machine, now)]_vars

(***************************************************************************)
(* Properties of the update checker.                                       *)
(***************************************************************************)
\* time of day t lies inside the window w: start <= t <= end, and for a
\* window that crosses midnight t >= start or t <= end
Inside(w, t) ==
    IF Minutes(w.start) > Minutes(w.end)
    THEN Minutes(t) >= Minutes(w.start) \/ Minutes(t) <= Minutes(w.end)
    ELSE Minutes(t) >= Minutes(w.start) /\ Minutes(t) <= Minutes(w.end)

\* C14: with a maintenance window configured, in every check cycle the agent
\* goes on to apply an update only at a wall-clock time inside the window.
C14_AppliesInsideWindow ==
    \A w \in window : \A a \in chk.applied : Inside(w, a.at)

(***************************************************************************)
(* Properties of the route guards.                                         *)
(***************************************************************************)
\* the request carries the configured admin key in X-API-Key
CarriesAdminKey(req) == adminKey # "" /\ req.key = adminKey

\* the request carries a valid bearer JWT of an enabled user with one of the
\* roles
CarriesJWT(req, roles) ==
    /\ Len(req.authorization) = 2
    /\ req.authorization[1] \in {"Bearer", "bearer"}
    /\ \E u \in GetUserFromToken(req.authorization[2]) :
          u.is_active /\ u.role \in roles

\* C16: a request to an admin route runs the handler if and only if it
\* carries the configured admin key in X-API-Key or a valid JWT with role
\* admin; otherwise it is rejected.
C16_AdminRoutesGuarded ==
    gate.route \in Routes("adminAuth") \cup Routes("JWTMiddleware") =>
        /\ gate.ran <=>
              (CarriesAdminKey(gate.req) \/ CarriesJWT(gate.req, {"admin"}))
        /\ ~gate.ran => gate.status \in {401, 403}

\* C17: a request to a dashboard route gets data only if it carries a valid
\* bearer JWT; without one it is rejected.
C17_DashboardRoutesGuarded ==
    gate.route \in Routes("OptionalJWTMiddleware") \cup Routes("none") =>
        /\ gate.ran => CarriesJWT(gate.req, {"admin", "viewer"})
        /\ ~gate.ran => gate.status \in {401, 403}

(***************************************************************************)
(* Properties of the daemon's shutdown.                                    *)
(***************************************************************************)
\* C19: after the shutdown signal every one of the three loops observes the
\* cancellation, between ticks or during its blocking call, and returns.
C19_LoopsObserveCancel ==
    (daemon = "cancelled") ~>
        (\A l \in DOMAIN loops : loops[l].fate = "returned")

(***************************************************************************)
(* Properties of the direct download route.                                *)
(***************************************************************************)
\* the files an upload writes when it succeeds
Uploaded == {Bytes(b) : b \in Blobs}

\* C21: once no Save is writing the file, handleDirectDownload answers 404
\* or serves a completely written artifact: a Save that failed part-way left
\* nothing a reader can see
C21_NoPartialArtifact ==
    (dl.status = 200 /\ dl.settled) => dl.body \in Uploaded

\* C29: where handleDirectDownload serves the bytes of an upload, the
\* response carries the header X-Checksum-SHA256 and its value is the
\* SHA-256 of those bytes
C29_BytesAndChecksum ==
    (dl.status = 200 /\ dl.body \in Uploaded) =>
        dl.checksum = {Sha256(dl.body)}

(***************************************************************************)
(* Properties of the version file.                                         *)
(***************************************************************************)
\* C22: the only step of ApplyUpdate that changes the version file is its
\* last one, which writes the new version and returns nil; a step on which
\* ApplyUpdate returns an error leaves the version file as it was
C22_VersionCommittedLast ==
    [][/\ versionFile' # versionFile =>
             /\ ap.pc = "commit" /\ ap'.ret = "ok"
             /\ versionFile' = ap.latest
       /\ (ap'.pc = "idle" /\ ap'.ret = "error") =>
             versionFile' = versionFile]_vars

\* an apply has failed at the start of the service and was rolled back, the
\* version file holding the prior version
C22_Witness ==
    /\ ap.pc = "idle" /\ ap.ret = "error" /\ ap.startFailed
    /\ versionFile # "" /\ versionFile # ap.latest

(***************************************************************************)
(* Properties of the latest release.                                       *)
(***************************************************************************)
\* C24: the latest version a heartbeat is answered with, for a product and a
\* channel, is the version of a release of that product on that channel
\* than which none was released later; without such a release there is no
\* answer for the product
C24_LatestByReleasedAt ==
    [][\A p \in Procs :
          (hb[p].pc = "respond" /\ hb'[p].pc = "done") =>
              \A i \in DOMAIN hb'[p].updates :
                 LET e == hb'[p].updates[i]
                 IN  \E r \in releases :
                        /\ r.product_name = e.product
                        /\ r.channel = e.channel
                        /\ r.version = e.latest_version
                        /\ \A q \in releases :
                              (q.product_name = e.product
                                  /\ q.channel = e.channel)
                              => q.released_at <= r.released_at]_vars

\* a heartbeat was answered with v1 as the latest version while v2 is on the
\* same channel, released before v1
C24_Witness ==
    \E p \in Procs : \E i \in DOMAIN hb[p].updates :
        /\ hb[p].pc = "done"
        /\ hb[p].updates[i].latest_version = "v1"
        /\ \E r, q \in releases :
              /\ r.product_name = hb[p].updates[i].product
              /\ q.product_name = r.product_name
              /\ r.channel = hb[p].updates[i].channel
              /\ q.channel = r.channel
              /\ r.version = "v1" /\ q.version = "v2"
              /\ q.released_at < r.released_at

(***************************************************************************)
(* Properties of heartbeats of unknown instances.                          *)
(***************************************************************************)
\* the heartbeat of flow p names an instance_id that no row carries
Unknown(p) ==
    /\ hb[p].req.instance_id # <<>>
    /\ \A r \in instances : r.instance_id # hb[p].req.instance_id

\* C25: the UPDATE of a heartbeat whose instance_id matches no row creates
\* no row and changes none, and the heartbeat is answered 200 all the same
C25_UnknownInstanceNoOp ==
    [][\A p \in Procs :
          /\ (Unknown(p) /\ hb[p].pc = "exec" /\ hb'[p].pc # "exec")
                => (instances' = instances /\ hb'[p].pc = "respond")
          /\ (Unknown(p) /\ hb[p].pc = "done") => hb[p].status = 200]_vars

\* a heartbeat of an unknown instance was answered, the table as it was
C25_Witness ==
    \E p \in Procs :
        /\ Unknown(p) /\ hb[p].pc = "done" /\ hb[p].status = 200
        /\ instances = {KnownInstance}

(***************************************************************************)
(* Properties of the Monitor's maps.                                       *)
(***************************************************************************)
\* C26: a write of the monitoring loop to the restart counters and a read
\* of them by GetStatus are never in progress at the same time
C26_AccessesNeverOverlap ==
    ~(access.loop = "write" /\ access.status = "read")

(***************************************************************************)
(* Properties of the login lock.                                           *)
(***************************************************************************)
\* C27: a login locks the account exactly when it is the 5th failed attempt
\* in a row since the last successful login or the last expiry of a lock,
\* and a login made while the account is locked is refused, whatever the
\* password
C27_LockOnFifthFailure ==
    [][\A u \in Users :
          account'[u] # account[u] =>
              /\ (account'[u].locked_until > now
                     /\ account'[u].locked_until # account[u].locked_until)
                 <=> (account'[u].answer = "invalid credentials"
                         /\ account'[u].streak = 5)
              /\ account[u].locked_until > now =>
                    account'[u].answer = "account locked"]_vars

(***************************************************************************)
(* Properties of the rollback command.                                     *)
(***************************************************************************)
\* version v is not after version w in the lexicographic order of the
\* version strings
VersionLeq(v, w) ==
    \/ v[1] < w[1]
    \/ v[1] = w[1] /\ (Len(v) = 1 \/ (Len(w) > 1 /\ v[2] <= w[2]))

\* C28: a rollback that succeeds has restored a backup whose version is
\* the lexicographically greatest among the product's backups, and the
\* version file holds exactly that version
C28_RestoresGreatestBackup ==
    [][(rb'.runs # rb.runs /\ rb'.ret = "rolled back") =>
          \E f \in rb.dir :
             /\ \A g \in rb.dir : VersionLeq(g.version, f.version)
             /\ rb'.binary = f.image
             /\ rb'.version = f.version]_vars

(***************************************************************************)
(* Properties of the init command.                                         *)
(***************************************************************************)
\* C30: an init in which the license activation, the directory creation,
\* the creation of the system user or a product download has failed exits
\* non-zero and has written no config
C30_EarlyFailureIsFatal ==
    (/\ boot.exit # -1
     /\ boot.failed \cap {"activate", "directories", "user", "download P",
                          "download Q"} # {})
        => (boot.exit = 1 /\ ~boot.config)

(***************************************************************************)
(* Properties of the daemon's cycles under errors.                         *)
(***************************************************************************)
\* C23: whatever failed before, a heartbeat tick sends the heartbeat
\* collected at that tick, and a pass of checkAllUpdates ends only after
\* every product was checked, then the next pass starts at the first
C23_ErrorsDoNotStopCycles ==
    [][/\ cyc'.beats # cyc.beats => cyc'.collected = cyc'.beats
       /\ (cyc'.at = 0 /\ cyc' # cyc /\ cyc'.beats = cyc.beats) =>
             cyc'.checked = {AgentProducts[i] : i \in DOMAIN AgentProducts}
       /\ (cyc.at = 0 /\ cyc'.at # 0) =>
             cyc'.checked = {AgentProducts[1]}]_vars

\* a second pass over the products has ended although the check or apply
\* of the first product failed, and a heartbeat was sent after a lost one
C23_Witness ==
    /\ cyc.cycles = 2 /\ "P" \in cyc.errors
    /\ cyc.checked = {"P", "Q"}
    /\ cyc.lost > 0 /\ cyc.collected > cyc.lost

(***************************************************************************)
(* Properties of the restart attempts between healthy ticks.               *)
(***************************************************************************)
\* C31: the attempt counter counts the attempts since the last active and
\* healthy tick: a tick that runs systemctl restart, whatever the state of
\* the service and whatever the result of the command, finds fewer than 5
\* attempts counted, comes 30 s or more after the attempt before it and
\* counts one more; the counter goes down only on a tick without attempt
C31_AttemptsCounted ==
    [][/\ Len(attemptTimes') > Len(attemptTimes) =>
             /\ restartCount < MaxRestarts
             /\ restartCount' = restartCount + 1
             /\ attemptTimes # <<>> =>
                   mtime - attemptTimes[Len(attemptTimes)] >= RestartCooldown
       /\ restartCount' < restartCount =>
             (unit = "active" /\ attemptTimes' = attemptTimes)]_vars

C33_PartialDownloadAborts ==
    ap.truncated => ap.pc \in {"backup", "stop"}

(***************************************************************************)
(* Properties of the binding write.                                        *)
(***************************************************************************)
\* C34: the step of an activation that binds the license changes, in table
\* licenses, nothing but the bound_to of a row: what an administrator has
\* written to the row meanwhile stays
C34_BindWritesOnlyBoundTo ==
    [][\A p \in Procs :
          (act[p].pc = "bind" /\ act'[p].pc = "done") =>
              \A n \in licenses' : \E l \in licenses :
                  n = [l EXCEPT !.bound_to = n.bound_to]]_vars

(***************************************************************************)
(* Properties of the instance row of an activation.                        *)
(***************************************************************************)
\* C35: the step of an activation that writes the instance row leaves the
\* newly issued api_key_hash only in rows whose license_id is the id of
\* the license being activated
C35_KeyedRowBelongsToLicense ==
    [][\A p \in Procs :
          (act[p].pc \in {"update", "create"} /\ act'[p].pc = "bind") =>
              \A r \in instances' :
                  r.api_key_hash = HashAPIKey(act[p].apiKey) =>
                      \E l \in act[p].lic : r.license_id = l.id]_vars

(***************************************************************************)
(* Properties of a failed rename.                                          *)
(***************************************************************************)
\* C36: when ApplyUpdate, begun on a complete binary of the prior version,
\* has returned an error after os.Rename failed, the target path holds that
\* binary
C36_RenameFailureRestores ==
    (ap.pc = "idle" /\ ap.ret = "error" /\ ap.renameFailed
        /\ IsBinary(ap.prior))
        => target = ap.prior

(***************************************************************************)
(* Properties of the monitor's tick.                                       *)
(***************************************************************************)
\* C37: a tick that finds the service inactive or failed, with fewer than
\* 5 attempts made and the last of them 30 s ago or more, runs systemctl
\* restart
C37_DownServiceRestarted ==
    [][(/\ mtime' # mtime
        /\ unit \in {"failed", "inactive"}
        /\ Len(attemptTimes) < MaxRestarts
        /\ attemptTimes # <<>> =>
              mtime - attemptTimes[Len(attemptTimes)] >= RestartCooldown)
          => Len(attemptTimes') = Len(attemptTimes) + 1]_vars

C39_TokenExchangedOnce ==
    \A a, b \in sess.answers :
        (a.token = b.token /\ a.issued # 0 /\ b.issued # 0) => a = b

\* C40: the process does not exit while the checker is inside ApplyUpdate:
\* an apply in progress at the shutdown signal runs to completion first
C40_ApplyCompletesBeforeExit ==
    [][(loops["checker"].pc = "apply" /\ loops["checker"].fate = "running")
           => daemon' # "exited"]_vars

====
